---- MODULE Spec2Model ----
(***************************************************************************)
(* The in-memory banking ledger (BankingSystemImpl), its thread-safe       *)
(* decorator (BankingSystemThreadSafe), the LockFreeQueue and the          *)
(* TransactionProcessor built on it.                                       *)
(*                                                                         *)
(* Spec    : the ledger driven by one caller, one action per operation.    *)
(* SpecTS  : the decorator driven by several threads, one action per lock  *)
(*           acquisition / unsynchronised step of a call.                  *)
(* SpecSched : the ledger driven by one caller from a funded start, with   *)
(*           the largest timestamp passed so far recorded (scheduler).     *)
(* SpecS6  : one Deposit per thread through the decorator, each on its own *)
(*           account.                                                      *)
(* SpecMPSC : the queue with two producers and one consumer.               *)
(* SpecMPMC : the queue with one producer and two consumers.               *)
(* SpecTP  : the processor: a controller thread calling start, submit and  *)
(*           stop, and the worker threads it creates.                      *)
(*                                                                         *)
(* C++ int arithmetic is modelled by Integers: the amounts and the number  *)
(* of operations are bounded far below 2^31, so no operation overflows.    *)
(***************************************************************************)
EXTENDS Integers, Sequences, FiniteSets, TLC

(* ------------------------------ bounds --------------------------------- *)
\* Spec: calls are made while the ledger has recorded fewer than MaxOps items.
MaxOps == 3
\* Spec: the largest amount a caller passes.
MaxAmount == 1
\* SpecTS: the number of calls the threads make in total.
MaxCalls == 5
\* SpecSched: calls are made while the ledger has recorded fewer than MaxSched
\* items since its funded start.
MaxSched == 2
\* SpecMPSC, SpecMPMC: the items each producer enqueues (items_per_producer).
MaxItems == 2
\* SpecTP: the transactions submitted and the stop() calls made.
MaxTx == 1
MaxStops == 1

\* The arguments callers pass in Spec.
AccountIds == {"a", "b"}
Timestamps == {1, 2}
Amounts == (-1)..MaxAmount
Delays == {-1, 0, 1}
TimeAts == {0, 1, 2, 3}
Counts == {-1, 0, 1, 2}

(* ------------------------- containers ---------------------------------- *)
\* std::unordered_map / std::map as a function on the set of present keys.
EmptyMap == <<>>

Put(f, k, v) == [x \in (DOMAIN f) \cup {k} |-> IF x = k THEN v ELSE f[x]]

Erase(f, k) == [x \in (DOMAIN f) \ {k} |-> f[x]]

\* operator[] read of an int-valued map: a missing key is value-initialised to 0.
At(f, k) == IF k \in DOMAIN f THEN f[k] ELSE 0

\* operator[] read of a vector-valued map: a missing key is an empty vector.
VecAt(f, k) == IF k \in DOMAIN f THEN f[k] ELSE <<>>

\* std::optional: the empty optional, and an engaged one.
None == <<>>

Some(v) == <<v>>

\* std::map::begin(): the smallest key.
MinKey(f) == CHOOSE k \in DOMAIN f : \A j \in DOMAIN f : k <= j

\* std::string("payment") + std::to_string(ordinal)
PaymentId(ordinal) == "payment" \o ToString(ordinal)

(* --------------------------- ledger state ------------------------------ *)
\* The members of BankingSystemImpl after default construction.
EmptyLedger ==
  [ accountBalances      |-> EmptyMap,
    accountOutgoing      |-> EmptyMap,
    nextPaymentOrdinal   |-> 1,
    paymentById          |-> EmptyMap,
    dueTimeToPaymentIds  |-> EmptyMap,
    balanceEvents        |-> EmptyMap,
    mergedInto           |-> EmptyMap,
    accountCreationTime  |-> EmptyMap,
    creationTimes        |-> EmptyMap ]

\* balanceEvents_[id].emplace_back(ts, delta)
AppendEvent(s, id, ts, delta) ==
  [s EXCEPT !.balanceEvents =
      Put(s.balanceEvents, id, Append(VecAt(s.balanceEvents, id), <<ts, delta>>))]

(* ------------------------ processDuePayments --------------------------- *)
\* payable as it would be without the `if (info.canceled) continue;` test.
payable_IgnoresCanceled(s, paymentId) ==
  /\ paymentId \in DOMAIN s.paymentById
  /\ s.paymentById[paymentId].accountId \in DOMAIN s.accountBalances
  /\ s.accountBalances[s.paymentById[paymentId].accountId]
       >= s.paymentById[paymentId].amount

\* The tests of the for loop's body that lead to the debit: the payment is
\* known, not canceled, its account is in the balance map and holds enough.
payable(s, paymentId) ==
  /\ paymentId \in DOMAIN s.paymentById
  /\ ~s.paymentById[paymentId].canceled
  /\ s.paymentById[paymentId].accountId \in DOMAIN s.accountBalances
  /\ s.accountBalances[s.paymentById[paymentId].accountId]
       >= s.paymentById[paymentId].amount

\* debitPayment as it would be without accountOutgoing_[...] += info.amount.
debitPayment_SkipsOutgoing(s, paymentId, balance) ==
  LET info == s.paymentById[paymentId]
      s1 == [s EXCEPT !.accountBalances =
                IF info.accountId \in DOMAIN @
                THEN [@ EXCEPT ![info.accountId] = balance - info.amount]
                ELSE @]
      s2 == AppendEvent(s1, info.accountId, info.dueTimestamp, -info.amount)
  IN  [s2 EXCEPT !.paymentById[paymentId].processed = TRUE]

\* The debit itself, from the balance `balance` that `itAcc->second -=` read:
\* the new balance, the event at the due time, the outgoing total, processed.
debitPayment(s, paymentId, balance) ==
  LET info == s.paymentById[paymentId]
      s1 == [s EXCEPT !.accountBalances =
                IF info.accountId \in DOMAIN @
                THEN [@ EXCEPT ![info.accountId] = balance - info.amount]
                ELSE @]
      s2 == AppendEvent(s1, info.accountId, info.dueTimestamp, -info.amount)
      s3 == [s2 EXCEPT !.accountOutgoing =
                Put(@, info.accountId, At(@, info.accountId) + info.amount)]
  IN  [s3 EXCEPT !.paymentById[paymentId].processed = TRUE]

\* skipPayment as it would be if `info.processed = true` were inside the
\* funds test: a payment that cannot be paid stays pending.
skipPayment_LeavesPending(s, paymentId) == s

\* The paths of the for loop's body that debit nothing.
skipPayment(s, paymentId) ==
  IF paymentId \notin DOMAIN s.paymentById THEN s
  ELSE IF s.paymentById[paymentId].canceled THEN s
  ELSE IF s.paymentById[paymentId].accountId \notin DOMAIN s.accountBalances THEN s
  ELSE [s EXCEPT !.paymentById[paymentId].processed = TRUE]

\* The body of the for loop: one payment id of a due bucket.
attemptPayment(s, paymentId) ==
  IF payable(s, paymentId)
  THEN debitPayment(s, paymentId,
                    s.accountBalances[s.paymentById[paymentId].accountId])
  ELSE skipPayment(s, paymentId)

RECURSIVE processBucket(_, _)
processBucket(s, paymentIds) ==
  IF paymentIds = <<>> THEN s
  ELSE processBucket(attemptPayment(s, Head(paymentIds)), Tail(paymentIds))

\* hasDue as it would be with `<` for `<=` in the while condition.
hasDue_Strict(s, timestamp) ==
  IF DOMAIN s.dueTimeToPaymentIds = {} THEN FALSE
  ELSE MinKey(s.dueTimeToPaymentIds) < timestamp

\* The while condition: it != end() && it->first <= timestamp, it = begin().
hasDue(s, timestamp) ==
  IF DOMAIN s.dueTimeToPaymentIds = {} THEN FALSE
  ELSE MinKey(s.dueTimeToPaymentIds) <= timestamp

\* processDuePayments as it would be with `if` for `while`: one bucket a call.
processDuePayments_OneBucket(s, timestamp) ==
  IF ~hasDue(s, timestamp) THEN s
  ELSE LET due == MinKey(s.dueTimeToPaymentIds) IN
    processBucket([s EXCEPT !.dueTimeToPaymentIds = Erase(@, due)],
                  s.dueTimeToPaymentIds[due])

RECURSIVE processDuePayments(_, _)
processDuePayments(s, timestamp) ==
  IF ~hasDue(s, timestamp) THEN s
  ELSE LET due == MinKey(s.dueTimeToPaymentIds) IN
    processDuePayments(
      processBucket([s EXCEPT !.dueTimeToPaymentIds = Erase(@, due)],
                    s.dueTimeToPaymentIds[due]),
      timestamp)

(* --------------------------- rootAtTime -------------------------------- *)
RECURSIVE rootAtTime(_, _, _)
rootAtTime(s, account_id, time_at) ==
  IF account_id \notin DOMAIN s.mergedInto THEN account_id
  ELSE IF s.mergedInto[account_id][2] <= time_at
       THEN rootAtTime(s, s.mergedInto[account_id][1], time_at)
       ELSE account_id

(* ---------------------- operations after the drain --------------------- *)
\* Each XxxBody is the operation's code after its processDuePayments call;
\* it yields the new state, whether the call succeeded, and the payload.
Outcome(s, ok, val) == [state |-> s, ok |-> ok, val |-> val]

\* CreateAccountBody as it would be without mergedInto_.erase(account_id).
CreateAccountBody_KeepsEdge(s, timestamp, account_id) ==
  IF account_id \in DOMAIN s.accountBalances THEN Outcome(s, FALSE, None)
  ELSE LET s1 == [s EXCEPT
                    !.accountBalances = Put(@, account_id, 0),
                    !.creationTimes =
                        Put(@, account_id, Append(VecAt(@, account_id), timestamp)),
                    !.accountCreationTime =
                        IF account_id \in DOMAIN @ THEN @ ELSE Put(@, account_id, timestamp)]
       IN  Outcome(AppendEvent(s1, account_id, timestamp, 0), TRUE, None)

CreateAccountBody(s, timestamp, account_id) ==
  IF account_id \in DOMAIN s.accountBalances THEN Outcome(s, FALSE, None)
  ELSE LET s1 == [s EXCEPT
                    !.accountBalances = Put(@, account_id, 0),
                    !.creationTimes =
                        Put(@, account_id, Append(VecAt(@, account_id), timestamp)),
                    !.accountCreationTime =
                        IF account_id \in DOMAIN @ THEN @ ELSE Put(@, account_id, timestamp)]
           s2 == AppendEvent(s1, account_id, timestamp, 0)
       IN  Outcome([s2 EXCEPT !.mergedInto = Erase(@, account_id)], TRUE, None)

\* DepositBody as it would be if a deposit were counted as spending.
DepositBody_CountsOutgoing(s, timestamp, account_id, amount) ==
  IF account_id \notin DOMAIN s.accountBalances THEN Outcome(s, FALSE, None)
  ELSE LET s1 == [s EXCEPT !.accountBalances[account_id] = @ + amount,
                           !.accountOutgoing =
                               Put(@, account_id, At(@, account_id) + amount)]
           s2 == AppendEvent(s1, account_id, timestamp, amount)
       IN  Outcome(s2, TRUE, Some(s2.accountBalances[account_id]))

\* DepositBody as it would be without balanceEvents_[...].emplace_back.
DepositBody_NoEvent(s, timestamp, account_id, amount) ==
  IF account_id \notin DOMAIN s.accountBalances THEN Outcome(s, FALSE, None)
  ELSE LET s1 == [s EXCEPT !.accountBalances[account_id] = @ + amount]
           s2 == s1
       IN  Outcome(s2, TRUE, Some(s2.accountBalances[account_id]))

DepositBody(s, timestamp, account_id, amount) ==
  IF account_id \notin DOMAIN s.accountBalances THEN Outcome(s, FALSE, None)
  ELSE LET s1 == [s EXCEPT !.accountBalances[account_id] = @ + amount]
           s2 == AppendEvent(s1, account_id, timestamp, amount)
       IN  Outcome(s2, TRUE, Some(s2.accountBalances[account_id]))

\* TransferBody as it would be with `<=` for `<` in the funds test.
TransferBody_OffByOne(s, timestamp, source_account_id, target_account_id, amount) ==
  IF source_account_id = target_account_id THEN Outcome(s, FALSE, None)
  ELSE IF \/ source_account_id \notin DOMAIN s.accountBalances
          \/ target_account_id \notin DOMAIN s.accountBalances
       THEN Outcome(s, FALSE, None)
  ELSE IF s.accountBalances[source_account_id] <= amount THEN Outcome(s, FALSE, None)
  ELSE LET s1 == [s EXCEPT !.accountBalances[source_account_id] = @ - amount,
                           !.accountBalances[target_account_id] = @ + amount]
           s2 == AppendEvent(s1, source_account_id, timestamp, -amount)
           s3 == AppendEvent(s2, target_account_id, timestamp, amount)
           s4 == [s3 EXCEPT !.accountOutgoing =
                     Put(@, source_account_id, At(@, source_account_id) + amount)]
       IN  Outcome(s4, TRUE, Some(s4.accountBalances[source_account_id]))

\* TransferBody as it would be without `itTarget->second += amount`.
TransferBody_NoCredit(s, timestamp, source_account_id, target_account_id, amount) ==
  IF source_account_id = target_account_id THEN Outcome(s, FALSE, None)
  ELSE IF \/ source_account_id \notin DOMAIN s.accountBalances
          \/ target_account_id \notin DOMAIN s.accountBalances
       THEN Outcome(s, FALSE, None)
  ELSE IF s.accountBalances[source_account_id] < amount THEN Outcome(s, FALSE, None)
  ELSE LET s1 == [s EXCEPT !.accountBalances[source_account_id] = @ - amount]
           s2 == AppendEvent(s1, source_account_id, timestamp, -amount)
           s3 == AppendEvent(s2, target_account_id, timestamp, amount)
           s4 == [s3 EXCEPT !.accountOutgoing =
                     Put(@, source_account_id, At(@, source_account_id) + amount)]
       IN  Outcome(s4, TRUE, Some(s4.accountBalances[source_account_id]))

TransferBody(s, timestamp, source_account_id, target_account_id, amount) ==
  IF source_account_id = target_account_id THEN Outcome(s, FALSE, None)
  ELSE IF \/ source_account_id \notin DOMAIN s.accountBalances
          \/ target_account_id \notin DOMAIN s.accountBalances
       THEN Outcome(s, FALSE, None)
  ELSE IF s.accountBalances[source_account_id] < amount THEN Outcome(s, FALSE, None)
  ELSE LET s1 == [s EXCEPT !.accountBalances[source_account_id] = @ - amount,
                           !.accountBalances[target_account_id] = @ + amount]
           s2 == AppendEvent(s1, source_account_id, timestamp, -amount)
           s3 == AppendEvent(s2, target_account_id, timestamp, amount)
           s4 == [s3 EXCEPT !.accountOutgoing =
                     Put(@, source_account_id, At(@, source_account_id) + amount)]
       IN  Outcome(s4, TRUE, Some(s4.accountBalances[source_account_id]))

\* std::string operator< on the modelled ids (single letters: alphabetical).
IdRank == [a |-> 1, b |-> 2, c |-> 3]

IdLess(x, y) == IdRank[x] < IdRank[y]

\* SpenderBefore as it would be with `<` for `>` on the outgoing totals.
SpenderBefore_Ascending(p, q) == IF p[2] # q[2] THEN p[2] < q[2] ELSE IdLess(p[1], q[1])

\* The comparator handed to std::sort: outgoing descending, then id ascending.
SpenderBefore(p, q) == IF p[2] # q[2] THEN p[2] > q[2] ELSE IdLess(p[1], q[1])

\* std::sort of the (id, outgoing) pairs under SpenderBefore (a strict total
\* order on pairs with distinct ids, so the sorted vector is unique).
RECURSIVE SortSpenders(_)
SortSpenders(pairs) ==
  IF pairs = {} THEN <<>>
  ELSE LET first == CHOOSE p \in pairs : \A q \in pairs \ {p} : SpenderBefore(p, q)
       IN  <<first>> \o SortSpenders(pairs \ {first})

\* id + "(" + std::to_string(outgoing) + ")"
FormatSpender(p) == p[1] \o "(" \o ToString(p[2]) \o ")"

TopSpendersBody(s, timestamp, n) ==
  LET accountAndOutgoing ==
        SortSpenders({<<id, At(s.accountOutgoing, id)>> : id \in DOMAIN s.accountBalances})
      n0 == IF n < 0 THEN 0 ELSE n
      limit == IF n0 < Len(accountAndOutgoing) THEN n0 ELSE Len(accountAndOutgoing)
  IN  Outcome(s, TRUE, [i \in 1..limit |-> FormatSpender(accountAndOutgoing[i])])

\* SchedulePaymentBody as it would be if the ordinal were taken before the
\* account test.
SchedulePaymentBody_BurnsOrdinal(s, timestamp, account_id, amount, delay) ==
  IF account_id \notin DOMAIN s.accountBalances
  THEN Outcome([s EXCEPT !.nextPaymentOrdinal = @ + 1], FALSE, None)
  ELSE LET dueTime == timestamp + delay
           ordinal == s.nextPaymentOrdinal
           paymentId == PaymentId(ordinal)
           info == [accountId |-> account_id, amount |-> amount,
                    dueTimestamp |-> dueTime, canceled |-> FALSE,
                    processed |-> FALSE, creationOrder |-> ordinal]
       IN  Outcome([s EXCEPT
                      !.nextPaymentOrdinal = @ + 1,
                      !.paymentById = Put(@, paymentId, info),
                      !.dueTimeToPaymentIds =
                          Put(@, dueTime, Append(VecAt(@, dueTime), paymentId))],
                   TRUE, Some(paymentId))

\* SchedulePaymentBody as it would be if a payment that is due at once were
\* attempted by the call that schedules it.
SchedulePaymentBody_ExecutesNow(s, timestamp, account_id, amount, delay) ==
  IF account_id \notin DOMAIN s.accountBalances THEN Outcome(s, FALSE, None)
  ELSE LET dueTime == timestamp + delay
           ordinal == s.nextPaymentOrdinal
           paymentId == PaymentId(ordinal)
           info == [accountId |-> account_id, amount |-> amount,
                    dueTimestamp |-> dueTime, canceled |-> FALSE,
                    processed |-> FALSE, creationOrder |-> ordinal]
           s1 == [s EXCEPT
                    !.nextPaymentOrdinal = @ + 1,
                    !.paymentById = Put(@, paymentId, info),
                    !.dueTimeToPaymentIds =
                        Put(@, dueTime, Append(VecAt(@, dueTime), paymentId))]
       IN  Outcome(processDuePayments(s1, timestamp), TRUE, Some(paymentId))

\* SchedulePaymentBody as it would be with an insert at the front of the
\* bucket for push_back.
SchedulePaymentBody_PushesFront(s, timestamp, account_id, amount, delay) ==
  IF account_id \notin DOMAIN s.accountBalances THEN Outcome(s, FALSE, None)
  ELSE LET dueTime == timestamp + delay
           ordinal == s.nextPaymentOrdinal
           paymentId == PaymentId(ordinal)
           info == [accountId |-> account_id, amount |-> amount,
                    dueTimestamp |-> dueTime, canceled |-> FALSE,
                    processed |-> FALSE, creationOrder |-> ordinal]
       IN  Outcome([s EXCEPT
                      !.nextPaymentOrdinal = @ + 1,
                      !.paymentById = Put(@, paymentId, info),
                      !.dueTimeToPaymentIds =
                          Put(@, dueTime, <<paymentId>> \o VecAt(@, dueTime))],
                   TRUE, Some(paymentId))

\* SchedulePaymentBody as it would be with nextPaymentOrdinal_ read but not
\* incremented.
SchedulePaymentBody_ReusesOrdinal(s, timestamp, account_id, amount, delay) ==
  IF account_id \notin DOMAIN s.accountBalances THEN Outcome(s, FALSE, None)
  ELSE LET dueTime == timestamp + delay
           ordinal == s.nextPaymentOrdinal
           paymentId == PaymentId(ordinal)
           info == [accountId |-> account_id, amount |-> amount,
                    dueTimestamp |-> dueTime, canceled |-> FALSE,
                    processed |-> FALSE, creationOrder |-> ordinal]
       IN  Outcome([s EXCEPT
                      !.paymentById = Put(@, paymentId, info),
                      !.dueTimeToPaymentIds =
                          Put(@, dueTime, Append(VecAt(@, dueTime), paymentId))],
                   TRUE, Some(paymentId))

SchedulePaymentBody(s, timestamp, account_id, amount, delay) ==
  IF account_id \notin DOMAIN s.accountBalances THEN Outcome(s, FALSE, None)
  ELSE LET dueTime == timestamp + delay
           ordinal == s.nextPaymentOrdinal
           paymentId == PaymentId(ordinal)
           info == [accountId |-> account_id, amount |-> amount,
                    dueTimestamp |-> dueTime, canceled |-> FALSE,
                    processed |-> FALSE, creationOrder |-> ordinal]
       IN  Outcome([s EXCEPT
                      !.nextPaymentOrdinal = @ + 1,
                      !.paymentById = Put(@, paymentId, info),
                      !.dueTimeToPaymentIds =
                          Put(@, dueTime, Append(VecAt(@, dueTime), paymentId))],
                   TRUE, Some(paymentId))

\* CancelPaymentBody as it would be without the `if (info.processed)` test.
CancelPaymentBody_IgnoresProcessed(s, timestamp, account_id, payment_id) ==
  IF payment_id \notin DOMAIN s.paymentById THEN Outcome(s, FALSE, None)
  ELSE LET info == s.paymentById[payment_id] IN
    IF info.canceled THEN Outcome(s, FALSE, None)
    ELSE IF info.accountId # account_id THEN Outcome(s, FALSE, None)
    ELSE Outcome([s EXCEPT !.paymentById[payment_id].canceled = TRUE], TRUE, None)

\* CancelPaymentBody as it would be without the owner test.
CancelPaymentBody_IgnoresOwner(s, timestamp, account_id, payment_id) ==
  IF payment_id \notin DOMAIN s.paymentById THEN Outcome(s, FALSE, None)
  ELSE LET info == s.paymentById[payment_id] IN
    IF info.canceled THEN Outcome(s, FALSE, None)
    ELSE IF info.processed THEN Outcome(s, FALSE, None)
    ELSE Outcome([s EXCEPT !.paymentById[payment_id].canceled = TRUE], TRUE, None)

CancelPaymentBody(s, timestamp, account_id, payment_id) ==
  IF payment_id \notin DOMAIN s.paymentById THEN Outcome(s, FALSE, None)
  ELSE LET info == s.paymentById[payment_id] IN
    IF info.canceled THEN Outcome(s, FALSE, None)
    ELSE IF info.processed THEN Outcome(s, FALSE, None)
    ELSE IF info.accountId # account_id THEN Outcome(s, FALSE, None)
    ELSE Outcome([s EXCEPT !.paymentById[payment_id].canceled = TRUE], TRUE, None)

\* MergeAccountsBody as it would be if the child's outgoing total were dropped
\* and not added to the parent's.
MergeAccountsBody_KeepsOutgoing(s, timestamp, account_id_1, account_id_2) ==
  IF account_id_1 = account_id_2 THEN Outcome(s, FALSE, None)
  ELSE IF \/ account_id_1 \notin DOMAIN s.accountBalances
          \/ account_id_2 \notin DOMAIN s.accountBalances
       THEN Outcome(s, FALSE, None)
  ELSE LET moved == s.accountBalances[account_id_2]
           \* Move funds
           s1 == [s EXCEPT !.accountBalances[account_id_1] = @ + moved]
           s2 == AppendEvent(s1, account_id_1, timestamp, moved)
           s3 == AppendEvent(s2, account_id_2, timestamp, -moved)
           s4 == [s3 EXCEPT !.accountBalances[account_id_2] = 0]
           \* Sum outgoing
           s5 == [s4 EXCEPT !.accountOutgoing = Erase(@, account_id_2)]
           \* Reassign scheduled payments from account2 to account1
           s6 == [s5 EXCEPT !.paymentById =
                     [p \in DOMAIN @ |->
                        IF ~@[p].processed /\ ~@[p].canceled /\ @[p].accountId = account_id_2
                        THEN [@[p] EXCEPT !.accountId = account_id_1]
                        ELSE @[p]]]
           \* Record merge edge, remove account2 from the active map
           s7 == [s6 EXCEPT !.mergedInto = Put(@, account_id_2, <<account_id_1, timestamp>>),
                            !.accountBalances = Erase(@, account_id_2)]
       IN  Outcome(s7, TRUE, None)

\* MergeAccountsBody as it would be without the loop that reassigns the
\* child's scheduled payments.
MergeAccountsBody_KeepsPayments(s, timestamp, account_id_1, account_id_2) ==
  IF account_id_1 = account_id_2 THEN Outcome(s, FALSE, None)
  ELSE IF \/ account_id_1 \notin DOMAIN s.accountBalances
          \/ account_id_2 \notin DOMAIN s.accountBalances
       THEN Outcome(s, FALSE, None)
  ELSE LET moved == s.accountBalances[account_id_2]
           \* Move funds
           s1 == [s EXCEPT !.accountBalances[account_id_1] = @ + moved]
           s2 == AppendEvent(s1, account_id_1, timestamp, moved)
           s3 == AppendEvent(s2, account_id_2, timestamp, -moved)
           s4 == [s3 EXCEPT !.accountBalances[account_id_2] = 0]
           \* Sum outgoing
           s5 == [s4 EXCEPT !.accountOutgoing =
                     Erase(Put(@, account_id_1, At(@, account_id_1) + At(@, account_id_2)),
                           account_id_2)]
           s6 == s5
           \* Record merge edge, remove account2 from the active map
           s7 == [s6 EXCEPT !.mergedInto = Put(@, account_id_2, <<account_id_1, timestamp>>),
                            !.accountBalances = Erase(@, account_id_2)]
       IN  Outcome(s7, TRUE, None)

MergeAccountsBody(s, timestamp, account_id_1, account_id_2) ==
  IF account_id_1 = account_id_2 THEN Outcome(s, FALSE, None)
  ELSE IF \/ account_id_1 \notin DOMAIN s.accountBalances
          \/ account_id_2 \notin DOMAIN s.accountBalances
       THEN Outcome(s, FALSE, None)
  ELSE LET moved == s.accountBalances[account_id_2]
           \* Move funds
           s1 == [s EXCEPT !.accountBalances[account_id_1] = @ + moved]
           s2 == AppendEvent(s1, account_id_1, timestamp, moved)
           s3 == AppendEvent(s2, account_id_2, timestamp, -moved)
           s4 == [s3 EXCEPT !.accountBalances[account_id_2] = 0]
           \* Sum outgoing
           s5 == [s4 EXCEPT !.accountOutgoing =
                     Erase(Put(@, account_id_1, At(@, account_id_1) + At(@, account_id_2)),
                           account_id_2)]
           \* Reassign scheduled payments from account2 to account1
           s6 == [s5 EXCEPT !.paymentById =
                     [p \in DOMAIN @ |->
                        IF ~@[p].processed /\ ~@[p].canceled /\ @[p].accountId = account_id_2
                        THEN [@[p] EXCEPT !.accountId = account_id_1]
                        ELSE @[p]]]
           \* Record merge edge, remove account2 from the active map
           s7 == [s6 EXCEPT !.mergedInto = Put(@, account_id_2, <<account_id_1, timestamp>>),
                            !.accountBalances = Erase(@, account_id_2)]
       IN  Outcome(s7, TRUE, None)

RECURSIVE SumUpTo(_, _)
\* The loop of GetBalance: the sum of the deltas of the events with ts <= time_at.
SumUpTo(events, time_at) ==
  IF events = <<>> THEN 0
  ELSE (IF Head(events)[1] <= time_at THEN Head(events)[2] ELSE 0)
       + SumUpTo(Tail(events), time_at)

\* GetBalanceBody as it would be with `<=` for `<` in the merge test.
GetBalanceBody_ClosedAtMerge(s, timestamp, account_id, time_at) ==
  IF account_id \in DOMAIN s.mergedInto /\ s.mergedInto[account_id][2] <= time_at
  THEN Outcome(s, FALSE, None)
  ELSE IF \/ account_id \notin DOMAIN s.accountCreationTime
          \/ s.accountCreationTime[account_id] > time_at
       THEN Outcome(s, FALSE, None)
  ELSE Outcome(s, TRUE, Some(SumUpTo(VecAt(s.balanceEvents, account_id), time_at)))

GetBalanceBody(s, timestamp, account_id, time_at) ==
  IF account_id \in DOMAIN s.mergedInto /\ s.mergedInto[account_id][2] < time_at
  THEN Outcome(s, FALSE, None)
  ELSE IF \/ account_id \notin DOMAIN s.accountCreationTime
          \/ s.accountCreationTime[account_id] > time_at
       THEN Outcome(s, FALSE, None)
  ELSE Outcome(s, TRUE, Some(SumUpTo(VecAt(s.balanceEvents, account_id), time_at)))

(* ------------------- the eight operations of the ledger ---------------- *)
CreateAccount(s, timestamp, account_id) ==
  CreateAccountBody(processDuePayments(s, timestamp), timestamp, account_id)

Deposit(s, timestamp, account_id, amount) ==
  DepositBody(processDuePayments(s, timestamp), timestamp, account_id, amount)

Transfer(s, timestamp, source_account_id, target_account_id, amount) ==
  TransferBody(processDuePayments(s, timestamp), timestamp,
               source_account_id, target_account_id, amount)

TopSpenders(s, timestamp, n) ==
  TopSpendersBody(processDuePayments(s, timestamp), timestamp, n)

SchedulePayment(s, timestamp, account_id, amount, delay) ==
  SchedulePaymentBody(processDuePayments(s, timestamp), timestamp, account_id, amount, delay)

\* CancelPayment as it would be if the payment were marked before the drain.
CancelPayment_CancelsFirst(s, timestamp, account_id, payment_id) ==
  LET out == CancelPaymentBody(s, timestamp, account_id, payment_id)
  IN  Outcome(processDuePayments(out.state, timestamp), out.ok, out.val)

CancelPayment(s, timestamp, account_id, payment_id) ==
  CancelPaymentBody(processDuePayments(s, timestamp), timestamp, account_id, payment_id)

MergeAccounts(s, timestamp, account_id_1, account_id_2) ==
  MergeAccountsBody(processDuePayments(s, timestamp), timestamp, account_id_1, account_id_2)

GetBalance(s, timestamp, account_id, time_at) ==
  GetBalanceBody(processDuePayments(s, timestamp), timestamp, account_id, time_at)

(* ------------------------------ state ---------------------------------- *)
VARIABLES
  ledger,           \* the BankingSystemImpl object (impl_ of the decorator)
  account_mutexes,  \* BankingSystemThreadSafe::account_mutexes_: id -> mutex state
  global_mutex,     \* BankingSystemThreadSafe::global_mutex_
  thr,              \* per thread: the call in progress and its position in it
  ncalls,           \* calls started so far through the decorator
  last_seen_ts,     \* SpecSched: the largest timestamp a caller has passed so far
  queue,            \* a LockFreeQueue: its nodes, head_, tail_, size_
  qthr,             \* per thread using the queue: its role, position and locals
  tp                \* the TransactionProcessor: running_, its counters

vars == <<ledger, account_mutexes, global_mutex, thr, ncalls, last_seen_ts,
          queue, qthr, tp>>

\* The variables of the ledger and of its decorator.
lvars == <<ledger, account_mutexes, global_mutex, thr, ncalls, last_seen_ts>>

Threads == {1, 2}

\* A std::shared_mutex: the thread that owns it exclusively (0: none) and the
\* threads that own it shared.
FreeMutex == [w |-> 0, r |-> {}]

\* A thread that is not inside a call.
Idle == [pc |-> "idle", op |-> "none", ts |-> 0, id |-> "", id2 |-> "",
         amount |-> 0, aux |-> 0, bucket |-> <<>>, reg |-> 0]

(* ---------------- LockFreeQueue and TransactionProcessor -------------- *)
\* The threads that use a LockFreeQueue.
QThreads == {1, 2, 3}

\* TransactionProcessor::num_workers_.
NumWorkers == 2

nullptr == 0

\* Node(T value): data(std::move(value)), next(nullptr). `live` is FALSE once
\* the node has been deleted.
Node(value) == [data |-> value, next |-> nullptr, live |-> TRUE]

\* LockFreeQueue(): one dummy node Node(T{}), head_ = tail_ = dummy, size_ = 0.
\* linked, taken and returned record the items in the order of their
\* tail_.exchange, the items dequeue calls have returned, in order, and the
\* items whose enqueue call has returned.
NewQueue(empty) ==
  [nodes |-> <<Node(empty)>>, head |-> 1, tail |-> 1, size |-> 0,
   linked |-> <<>>, taken |-> <<>>, returned |-> {}]

\* A thread that does not exist (yet, or any more).
NoThread == [role |-> "none", pc |-> "none", item |-> 0, new_node |-> nullptr,
             old_tail |-> nullptr, head |-> nullptr, next |-> nullptr,
             result |-> None, sent |-> 0, pending |-> 0]

QThread(role, pc) == [NoThread EXCEPT !.role = role, !.pc = pc]

\* TransactionProcessor(...): running_(false), transactions_processed_(0).
\* submitted and stops count the submitTransaction and stop calls made.
NewProcessor == [running |-> FALSE, transactions_processed |-> 0,
                 submitted |-> 0, stops |-> 0]

\* No thread uses a queue: the ledger is called directly.
NoProcessor ==
  /\ queue = NewQueue("")
  /\ qthr = [t \in QThreads |-> NoThread]
  /\ tp = NewProcessor

\* The state of a freshly constructed BankingSystemThreadSafe, no call begun.
DecoratorInit ==
  /\ account_mutexes = EmptyMap
  /\ global_mutex = FreeMutex
  /\ thr = [t \in Threads |-> Idle]
  /\ ncalls = 0

PaymentIds == {PaymentId(i) : i \in 1..(MaxOps + 1)}

RECURSIVE SumLen(_, _)
SumLen(f, keys) ==
  IF keys = {} THEN 0
  ELSE LET k == CHOOSE x \in keys : TRUE IN Len(f[k]) + SumLen(f, keys \ {k})

\* What the ledger has recorded so far: every successful state-changing call adds
\* at least one balance event, one payment or one cancellation.
LedgerSize(s) ==
  SumLen(s.balanceEvents, DOMAIN s.balanceEvents)
  + (s.nextPaymentOrdinal - 1)
  + Cardinality({p \in DOMAIN s.paymentById : s.paymentById[p].canceled})

Init ==
  /\ ledger = EmptyLedger
  /\ DecoratorInit
  /\ last_seen_ts = 0
  /\ NoProcessor

\* Calls are made while the ledger has recorded fewer than MaxOps items.
CanCall == LedgerSize(ledger) < MaxOps

\* A call returns: the ledger is left as the operation left it.
Returns(out) ==
  /\ ledger' = out.state
  /\ UNCHANGED <<account_mutexes, global_mutex, thr, ncalls, last_seen_ts, queue, qthr, tp>>

DoCreateAccount ==
  /\ CanCall
  /\ \E ts \in Timestamps, id \in AccountIds :
       Returns(CreateAccount(ledger, ts, id))

DoDeposit ==
  /\ CanCall
  /\ \E ts \in Timestamps, id \in AccountIds, amount \in Amounts :
       Returns(Deposit(ledger, ts, id, amount))

DoTransfer ==
  /\ CanCall
  /\ \E ts \in Timestamps, src \in AccountIds, dst \in AccountIds, amount \in Amounts :
       Returns(Transfer(ledger, ts, src, dst, amount))

DoTopSpenders ==
  /\ CanCall
  /\ \E ts \in Timestamps, n \in Counts :
       Returns(TopSpenders(ledger, ts, n))

DoSchedulePayment ==
  /\ CanCall
  /\ \E ts \in Timestamps, id \in AccountIds, amount \in Amounts, delay \in Delays :
       Returns(SchedulePayment(ledger, ts, id, amount, delay))

DoCancelPayment ==
  /\ CanCall
  /\ \E ts \in Timestamps, id \in AccountIds, pid \in PaymentIds :
       Returns(CancelPayment(ledger, ts, id, pid))

DoMergeAccounts ==
  /\ CanCall
  /\ \E ts \in Timestamps, id1 \in AccountIds, id2 \in AccountIds :
       Returns(MergeAccounts(ledger, ts, id1, id2))

DoGetBalance ==
  /\ CanCall
  /\ \E ts \in Timestamps, id \in AccountIds, time_at \in TimeAts :
       Returns(GetBalance(ledger, ts, id, time_at))

Next ==
  \/ DoCreateAccount
  \/ DoDeposit
  \/ DoTransfer
  \/ DoTopSpenders
  \/ DoSchedulePayment
  \/ DoCancelPayment
  \/ DoMergeAccounts
  \/ DoGetBalance

Spec == Init /\ [][Next]_vars

(* ----------------------- claims about the ledger ----------------------- *)
\* The ledger as the preamble drain of a call at `ts` leaves it.
Drained(ts) == processDuePayments(ledger, ts)

Active(s) == DOMAIN s.accountBalances

\* C2: the balance of every active account is >= 0, whatever integer arguments
\* the callers passed.
C2_BalancesNonNegative ==
  \A id \in Active(ledger) : ledger.accountBalances[id] >= 0

\* C6: Transfer succeeds exactly when src # dst, both accounts are active and
\* balance(src) >= amount after the drain; on success it moves amount from src
\* to dst, adds amount to outgoing_total(src), appends (src, ts, -amount) and
\* (dst, ts, +amount), returns the new source balance and changes no other
\* balance or outgoing total; otherwise it returns nil.
C6_Transfer ==
  \A ts \in Timestamps, src \in AccountIds, dst \in AccountIds, amount \in Amounts :
    LET d == Drained(ts)
        out == Transfer(ledger, ts, src, dst, amount)
        n == out.state
    IN  /\ out.ok <=> /\ src # dst
                      /\ src \in Active(d) /\ dst \in Active(d)
                      /\ d.accountBalances[src] >= amount
        /\ out.ok =>
             /\ n.accountBalances[src] = d.accountBalances[src] - amount
             /\ n.accountBalances[dst] = d.accountBalances[dst] + amount
             /\ At(n.accountOutgoing, src) = At(d.accountOutgoing, src) + amount
             /\ n.balanceEvents[src] = Append(VecAt(d.balanceEvents, src), <<ts, -amount>>)
             /\ n.balanceEvents[dst] = Append(VecAt(d.balanceEvents, dst), <<ts, amount>>)
             /\ out.val = Some(d.accountBalances[src] - amount)
             /\ Active(n) = Active(d)
             /\ \A id \in AccountIds \ {src, dst} :
                  /\ id \in Active(d) => n.accountBalances[id] = d.accountBalances[id]
                  /\ At(n.accountOutgoing, id) = At(d.accountOutgoing, id)
             /\ At(n.accountOutgoing, dst) = At(d.accountOutgoing, dst)
        /\ ~out.ok => out.val = None

\* A transfer of a positive amount succeeds here.
C6_Witness ==
  \E ts \in Timestamps, src \in AccountIds, dst \in AccountIds, amount \in Amounts :
    /\ amount > 0
    /\ Transfer(ledger, ts, src, dst, amount).ok
    /\ Transfer(ledger, ts, src, dst, amount).val = Some(0)

\* C7: Deposit and Transfer reject a non-positive amount: for active accounts
\* and amount <= 0 they return nil and leave the ledger as the drain left it.
C7_NonPositiveAmountRejected ==
  \A ts \in Timestamps, id \in AccountIds, dst \in AccountIds, amount \in Amounts :
    (amount <= 0 /\ id \in Active(Drained(ts)) /\ dst \in Active(Drained(ts))) =>
       /\ ~Deposit(ledger, ts, id, amount).ok
       /\ Deposit(ledger, ts, id, amount).state = Drained(ts)
       /\ ~Transfer(ledger, ts, id, dst, amount).ok
       /\ Transfer(ledger, ts, id, dst, amount).state = Drained(ts)

\* C8: Deposit of amount > 0 on an active account adds exactly amount to its
\* balance, appends (id, ts, +amount), returns the new balance and leaves every
\* outgoing total unchanged; on an id that is not active it returns nil.
C8_Deposit ==
  \A ts \in Timestamps, id \in AccountIds, amount \in Amounts :
    LET d == Drained(ts)
        out == Deposit(ledger, ts, id, amount)
        n == out.state
    IN  /\ (id \in Active(d) /\ amount > 0) =>
             /\ out.ok
             /\ n.accountBalances[id] = d.accountBalances[id] + amount
             /\ n.balanceEvents[id] = Append(VecAt(d.balanceEvents, id), <<ts, amount>>)
             /\ out.val = Some(d.accountBalances[id] + amount)
             /\ n.accountOutgoing = d.accountOutgoing
        /\ id \notin Active(d) => (~out.ok /\ out.val = None)

\* A positive deposit succeeds here, after a drain that debited a payment.
C8_Witness ==
  \E ts \in Timestamps, id \in AccountIds, amount \in Amounts :
    /\ amount > 0
    /\ Deposit(ledger, ts, id, amount).ok
    /\ Drained(ts).balanceEvents # ledger.balanceEvents

\* C9: CreateAccount returns false when id is active and true otherwise; on
\* true the account is active with balance 0, the merge edge of id is cleared
\* and the sentinel (id, ts, 0) is appended; this includes an id that a merge
\* closed.
C9_CreateAccount ==
  \A ts \in Timestamps, id \in AccountIds :
    LET d == Drained(ts)
        out == CreateAccount(ledger, ts, id)
        n == out.state
    IN  /\ out.ok <=> id \notin Active(d)
        /\ out.ok =>
             /\ id \in Active(n)
             /\ n.accountBalances[id] = 0
             /\ id \notin DOMAIN n.mergedInto
             /\ n.balanceEvents[id] = Append(VecAt(d.balanceEvents, id), <<ts, 0>>)

\* An id closed by a merge is created again here.
C9_Witness ==
  \E ts \in Timestamps, id \in DOMAIN ledger.mergedInto :
    CreateAccount(ledger, ts, id).ok

\* A failed call left the ledger as `drained`.
FailsClean(out, drained) == ~out.ok => out.state = drained

\* The failing calls at timestamp ts leave the ledger as its drain leaves it.
FailuresCleanAt(ts, drained) ==
  \A id \in AccountIds :
    /\ FailsClean(CreateAccount(ledger, ts, id), drained)
    /\ \A amount \in Amounts :
         /\ FailsClean(Deposit(ledger, ts, id, amount), drained)
         /\ \A dst \in AccountIds :
              FailsClean(Transfer(ledger, ts, id, dst, amount), drained)
         /\ \A delay \in Delays :
              FailsClean(SchedulePayment(ledger, ts, id, amount, delay), drained)
    /\ \A pid \in PaymentIds :
         FailsClean(CancelPayment(ledger, ts, id, pid), drained)
    /\ \A id2 \in AccountIds :
         FailsClean(MergeAccounts(ledger, ts, id, id2), drained)
    /\ \A time_at \in TimeAts :
         FailsClean(GetBalance(ledger, ts, id, time_at), drained)
    /\ \A n \in Counts :
         FailsClean(TopSpenders(ledger, ts, n), drained)

\* C10: whenever an operation returns failure (nil or false), it leaves the
\* ledger exactly as the preamble drain at the call's timestamp leaves it.
C10_FailureChangesNothing ==
  \A ts \in Timestamps : FailuresCleanAt(ts, Drained(ts))

\* A call fails here after its drain has changed the ledger.
C10_Witness ==
  \E ts \in Timestamps, id \in AccountIds, amount \in Amounts, delay \in Delays :
    /\ Drained(ts) # ledger
    /\ ~SchedulePayment(ledger, ts, id, amount, delay).ok
    /\ ~Deposit(ledger, ts, id, amount).ok


(* ------------------- BankingSystemThreadSafe: threads ------------------ *)
\* The arguments callers pass in SpecTS.
TsOps == {"CreateAccount", "Deposit", "Transfer", "TopSpenders",
          "SchedulePayment", "CancelPayment", "MergeAccounts", "GetBalance"}

\* Operations that lock two account guards, and those that lock the global one.
TwoAccountOps == {"Transfer", "MergeAccounts"}

GlobalOps == {"CreateAccount", "TopSpenders"}

\* std::shared_lock is taken by GetBalance (account) and TopSpenders (global).
SharedOps == {"GetBalance", "TopSpenders"}

\* unique_lock(m) may return: nobody owns m.
CanLock(m) == m.w = 0 /\ m.r = {}

\* shared_lock(m) may return: nobody owns m exclusively.
CanLockShared(m) == m.w = 0

Unlocked(m, t) == [w |-> IF m.w = t THEN 0 ELSE m.w, r |-> m.r \ {t}]

Set(t, rec) == thr' = [thr EXCEPT ![t] = rec]

\* A caller starts one of the eight calls.
BeginCall(t) ==
  /\ thr[t].pc = "idle"
  /\ ncalls < MaxCalls
  /\ ncalls' = ncalls + 1
  /\ \E op \in TsOps, id \in AccountIds, id2 \in AccountIds :
       /\ (op \notin TwoAccountOps => id2 = id)
       /\ (op = "TopSpenders" => id = "a")
       /\ Set(t, [Idle EXCEPT
                    !.pc = IF op \in GlobalOps THEN "global" ELSE "find1",
                    !.op = op, !.ts = 1,
                    !.id = IF op = "TopSpenders" THEN "" ELSE id,
                    !.id2 = IF op = "CancelPayment" THEN PaymentId(1) ELSE id2,
                    !.amount = 1,
                    !.aux = IF op = "SchedulePayment" THEN 0 ELSE 1])
  /\ UNCHANGED <<ledger, account_mutexes, global_mutex, last_seen_ts, queue, qthr, tp>>

\* CreateAccount: unique_lock global_lock(global_mutex_);
\* TopSpenders: shared_lock global_lock(global_mutex_).
LockGlobal(t) ==
  /\ thr[t].pc = "global"
  /\ IF thr[t].op \in SharedOps
     THEN /\ CanLockShared(global_mutex)
          /\ global_mutex' = [global_mutex EXCEPT !.r = @ \cup {t}]
     ELSE /\ CanLock(global_mutex)
          /\ global_mutex' = [global_mutex EXCEPT !.w = t]
  /\ Set(t, [thr[t] EXCEPT !.pc = "drain"])
  /\ UNCHANGED <<ledger, account_mutexes, ncalls, last_seen_ts, queue, qthr, tp>>

\* The account whose guard the thread is getting or locking.
Target(t) == IF thr[t].pc \in {"find2", "gam2", "ins2", "lock2"} THEN thr[t].id2 ELSE thr[t].id

Second(t) == thr[t].pc \in {"find2", "gam2", "ins2", "lock2"}

\* Another thread is inside the insertion of getAccountMutex: it owns
\* global_mutex_ and its account_mutexes_[account_id] is adding a node.
InsertInProgress(t) ==
  \E u \in Threads \ {t} :
    thr[u].pc \in {"ins1", "ins2"} /\ Target(u) \notin DOMAIN account_mutexes

\* Where getAccountMutex goes on when find() returns an element, and when it
\* returns end().
Found(t) == IF Second(t) THEN "lock2" ELSE "lock1"

Missed(t) == IF Second(t) THEN "gam2" ELSE "gam1"

\* getAccountMutex: the unlocked find() on account_mutexes_. While another
\* thread inserts into the std::unordered_map the read is a data race and the
\* behaviour is undefined: the builds return the element, or miss it and
\* return end(), or read a bucket array or a unique_ptr that is not there
\* (yet, or any more), which ends the process with every thread where it is.
FindMutex(t) ==
  /\ thr[t].pc \in {"find1", "find2"}
  /\ \/ /\ ~InsertInProgress(t)
        /\ Set(t, [thr[t] EXCEPT !.pc =
              IF Target(t) \in DOMAIN account_mutexes THEN Found(t) ELSE Missed(t)])
     \/ /\ InsertInProgress(t)
        /\ Target(t) \in DOMAIN account_mutexes
        /\ Set(t, [thr[t] EXCEPT !.pc = Found(t)])
     \/ /\ InsertInProgress(t)
        /\ Set(t, [thr[t] EXCEPT !.pc = Missed(t)])
     \/ /\ InsertInProgress(t)
        /\ thr' = [u \in Threads |->
                     [thr[u] EXCEPT !.pc = IF u = t THEN "fault" ELSE "killed"]]
  /\ UNCHANGED <<ledger, account_mutexes, global_mutex, ncalls, last_seen_ts, queue, qthr, tp>>

\* getAccountMutex: unique_lock global_lock(global_mutex_).
GamLock(t) ==
  /\ thr[t].pc \in {"gam1", "gam2"}
  /\ CanLock(global_mutex)
  /\ global_mutex' = [global_mutex EXCEPT !.w = t]
  /\ Set(t, [thr[t] EXCEPT !.pc = IF Second(t) THEN "ins2" ELSE "ins1"])
  /\ UNCHANGED <<ledger, account_mutexes, ncalls, last_seen_ts, queue, qthr, tp>>

\* getAccountMutex: account_mutexes_[account_id], make_unique if null, return
\* (global_lock is released on return).
GamInsert(t) ==
  /\ thr[t].pc \in {"ins1", "ins2"}
  /\ account_mutexes' =
       IF Target(t) \in DOMAIN account_mutexes THEN account_mutexes
       ELSE Put(account_mutexes, Target(t), FreeMutex)
  /\ global_mutex' = Unlocked(global_mutex, t)
  /\ Set(t, [thr[t] EXCEPT !.pc = IF Second(t) THEN "lock2" ELSE "lock1"])
  /\ UNCHANGED <<ledger, ncalls, last_seen_ts, queue, qthr, tp>>

\* After a guard is locked: Transfer and MergeAccounts get the second guard
\* (the swap of the two lock objects that follows acquires nothing), the
\* others enter the ledger.
AfterLock(t) == IF thr[t].op \in TwoAccountOps /\ ~Second(t) THEN "find2" ELSE "drain"

\* unique_lock / shared_lock on the account's guard returns.
LockAccount(t) ==
  /\ thr[t].pc \in {"lock1", "lock2"}
  /\ account_mutexes[Target(t)].w # t
  /\ IF thr[t].op \in SharedOps
     THEN /\ CanLockShared(account_mutexes[Target(t)])
          /\ account_mutexes' = [account_mutexes EXCEPT ![Target(t)].r = @ \cup {t}]
     ELSE /\ CanLock(account_mutexes[Target(t)])
          /\ account_mutexes' = [account_mutexes EXCEPT ![Target(t)].w = t]
  /\ Set(t, [thr[t] EXCEPT !.pc = AfterLock(t)])
  /\ UNCHANGED <<ledger, global_mutex, ncalls, last_seen_ts, queue, qthr, tp>>

\* unique_lock on a std::shared_mutex the calling thread already owns: the
\* behaviour is undefined. The builds either never return from lock(), or
\* lock() throws std::system_error (resource_deadlock_would_occur) and the
\* unwinding unlocks the first guard.
RelockOwned(t) ==
  /\ thr[t].pc = "lock2"
  /\ account_mutexes[Target(t)].w = t
  /\ \/ /\ Set(t, [thr[t] EXCEPT !.pc = "self_deadlock"])
        /\ UNCHANGED account_mutexes
     \/ /\ Set(t, [thr[t] EXCEPT !.pc = "threw"])
        /\ account_mutexes' = [account_mutexes EXCEPT ![Target(t)] = Unlocked(@, t)]
  /\ UNCHANGED <<ledger, global_mutex, ncalls, last_seen_ts, queue, qthr, tp>>

\* The std::system_error leaves the call; the worker that made the call
\* catches it and goes on to its next transaction.
CatchThrown(t) ==
  /\ thr[t].pc = "threw"
  /\ Set(t, Idle)
  /\ UNCHANGED <<ledger, account_mutexes, global_mutex, ncalls, last_seen_ts, queue, qthr, tp>>

\* processDuePayments, loop head: the first bucket is due; its vector is moved
\* out and its node erased.
DrainBegin(t) ==
  /\ thr[t].pc = "drain"
  /\ thr[t].bucket = <<>>
  /\ hasDue(ledger, thr[t].ts)
  /\ LET due == MinKey(ledger.dueTimeToPaymentIds) IN
       /\ ledger' = [ledger EXCEPT !.dueTimeToPaymentIds = Erase(@, due)]
       /\ Set(t, [thr[t] EXCEPT !.bucket = ledger.dueTimeToPaymentIds[due]])
  /\ UNCHANGED <<account_mutexes, global_mutex, ncalls, last_seen_ts, queue, qthr, tp>>

\* processDuePayments, for loop: the next payment of the bucket is looked up;
\* a payment to debit has its account's balance read, any other is skipped.
DrainAttempt(t) ==
  /\ thr[t].pc = "drain"
  /\ thr[t].bucket # <<>>
  /\ LET paymentId == Head(thr[t].bucket) IN
       IF payable(ledger, paymentId)
       THEN /\ Set(t, [thr[t] EXCEPT
                         !.pc = "debit",
                         !.reg = ledger.accountBalances[ledger.paymentById[paymentId].accountId]])
            /\ UNCHANGED ledger
       ELSE /\ ledger' = skipPayment(ledger, paymentId)
            /\ Set(t, [thr[t] EXCEPT !.bucket = Tail(@)])
  /\ UNCHANGED <<account_mutexes, global_mutex, ncalls, last_seen_ts, queue, qthr, tp>>

\* processDuePayments, for loop: the balance read is written back less the
\* amount, the event and the outgoing total are recorded, processed is set.
DrainDebit(t) ==
  /\ thr[t].pc = "debit"
  /\ ledger' = debitPayment(ledger, Head(thr[t].bucket), thr[t].reg)
  /\ Set(t, [thr[t] EXCEPT !.pc = "drain", !.bucket = Tail(@), !.reg = 0])
  /\ UNCHANGED <<account_mutexes, global_mutex, ncalls, last_seen_ts, queue, qthr, tp>>

\* The operation's code after processDuePayments, on the shared ledger.
BodyOf(c, s) ==
  CASE c.op = "CreateAccount"   -> CreateAccountBody(s, c.ts, c.id)
    [] c.op = "Deposit"         -> DepositBody(s, c.ts, c.id, c.amount)
    [] c.op = "Transfer"        -> TransferBody(s, c.ts, c.id, c.id2, c.amount)
    [] c.op = "TopSpenders"     -> TopSpendersBody(s, c.ts, c.aux)
    [] c.op = "SchedulePayment" -> SchedulePaymentBody(s, c.ts, c.id, c.amount, c.aux)
    [] c.op = "CancelPayment"   -> CancelPaymentBody(s, c.ts, c.id, c.id2)
    [] c.op = "MergeAccounts"   -> MergeAccountsBody(s, c.ts, c.id, c.id2)
    [] c.op = "GetBalance"      -> GetBalanceBody(s, c.ts, c.id, c.aux)

\* processDuePayments finds no due bucket and returns; the rest of the
\* operation runs, the locks are released and the call returns.
BodyAndReturn(t) ==
  /\ thr[t].pc = "drain"
  /\ thr[t].bucket = <<>>
  /\ ~hasDue(ledger, thr[t].ts)
  /\ ledger' = BodyOf(thr[t], ledger).state
  /\ account_mutexes' = [id \in DOMAIN account_mutexes |-> Unlocked(account_mutexes[id], t)]
  /\ global_mutex' = Unlocked(global_mutex, t)
  /\ Set(t, Idle)
  /\ UNCHANGED <<ncalls, last_seen_ts, queue, qthr, tp>>

NextTS ==
  \E t \in Threads :
    \/ BeginCall(t)
    \/ LockGlobal(t)
    \/ FindMutex(t)
    \/ GamLock(t)
    \/ GamInsert(t)
    \/ LockAccount(t)
    \/ RelockOwned(t)
    \/ CatchThrown(t)
    \/ DrainBegin(t)
    \/ DrainAttempt(t)
    \/ DrainDebit(t)
    \/ BodyAndReturn(t)

SpecTS == Init /\ [][NextTS]_vars

(* ---------------- claims about the thread-safe decorator --------------- *)
\* Threads that own account `id`'s guard (exclusively or shared), other than t.
OwnersBut(id, t) ==
  IF id \notin DOMAIN account_mutexes THEN {}
  ELSE ((IF account_mutexes[id].w = 0 THEN {} ELSE {account_mutexes[id].w})
        \cup account_mutexes[id].r) \ {t}

\* t is inside lock() of an account guard.
AtLock(t) == thr[t].pc \in {"lock1", "lock2"}

\* C1: no set of threads blocks forever on lock acquisition: there is never a
\* set of two or more threads each of which is inside lock() of an account guard
\* that another thread of the set owns (none of them can ever release).
C1_NoDeadlock ==
  ~ \E D \in SUBSET Threads :
      /\ Cardinality(D) >= 2
      /\ \A t \in D : AtLock(t) /\ OwnersBut(Target(t), t) \cap D # {}

\* t is executing processDuePayments.
InDrain(t) == thr[t].pc \in {"drain", "debit"}

\* The sum of the deltas of a vector of balance events.
RECURSIVE SumDeltas(_)
SumDeltas(events) ==
  IF events = <<>> THEN 0 ELSE Head(events)[2] + SumDeltas(Tail(events))

\* A thread that writes an account's balance, outgoing total and event history
\* inside the drain owns that account's guard or the global guard exclusively.
DebitsAreGuarded ==
  \A t \in Threads :
    thr[t].pc = "debit" =>
      LET acc == ledger.paymentById[Head(thr[t].bucket)].accountId IN
        \/ global_mutex.w = t
        \/ (acc \in DOMAIN account_mutexes /\ account_mutexes[acc].w = t)

\* C3: executions through the decorator are linearizable: the ledger they leave
\* is one that some sequential execution of the calls leaves. After every
\* sequential execution each active account's balance is the sum of the deltas
\* recorded for it, so this must hold whenever no call is in progress (no
\* update to a balance or to an event history was lost).
C3_Linearizable ==
  (\A t \in Threads : thr[t].pc = "idle") =>
     \A id \in DOMAIN ledger.accountBalances :
       ledger.accountBalances[id] = SumDeltas(VecAt(ledger.balanceEvents, id))

\* C4: the preamble drain runs only while the calling thread owns the global
\* guard exclusively, so no two threads are inside processDuePayments at once.
C4_DrainUnderGlobalGuard ==
  /\ \A t \in Threads : InDrain(t) => global_mutex.w = t
  /\ Cardinality({t \in Threads : InDrain(t)}) <= 1

\* C5: Transfer(ts, x, x, amount) and MergeAccounts(ts, x, x) through the
\* decorator terminate and return failure: such a call never ends up inside a
\* lock() that cannot return, nor leaves by an exception instead of a result.
C5_SameIdCallReturns ==
  \A t \in Threads :
    (thr[t].op \in TwoAccountOps /\ thr[t].id = thr[t].id2) =>
       thr[t].pc \notin {"self_deadlock", "threw"}

(* ----------------------- the scheduler: SpecSched ---------------------- *)
\* The ledger after the calls CreateAccount(1, "a"); CreateAccount(1, "b");
\* Deposit(1, "a", 1): two active accounts, one of them funded.
Funded ==
  Deposit(CreateAccount(CreateAccount(EmptyLedger, 1, "a").state, 1, "b").state,
          1, "a", 1).state

InitSched ==
  /\ ledger = Funded
  /\ DecoratorInit
  /\ last_seen_ts = 1
  /\ NoProcessor

\* The arguments callers pass in SpecSched (the ids, timestamps, delays and
\* counts are those of Spec).
SchedAmounts == {0, 1}

SchedPaymentIds == {PaymentId(i) : i \in 1..(MaxSched + 1)}

\* Calls are made while the ledger has recorded fewer than MaxSched items
\* since the funded start.
CanCallSched == LedgerSize(ledger) - LedgerSize(Funded) < MaxSched

\* A call at timestamp ts returns: the ledger is left as the operation left
\* it, and ts has been observed.
ReturnsAt(ts, out) ==
  /\ ledger' = out.state
  /\ last_seen_ts' = IF ts > last_seen_ts THEN ts ELSE last_seen_ts
  /\ UNCHANGED <<account_mutexes, global_mutex, thr, ncalls, queue, qthr, tp>>

CallCreateAccount ==
  /\ CanCallSched
  /\ \E ts \in Timestamps, id \in AccountIds :
       ReturnsAt(ts, CreateAccount(ledger, ts, id))

CallDeposit ==
  /\ CanCallSched
  /\ \E ts \in Timestamps, id \in AccountIds, amount \in SchedAmounts :
       ReturnsAt(ts, Deposit(ledger, ts, id, amount))

CallTransfer ==
  /\ CanCallSched
  /\ \E ts \in Timestamps, src \in AccountIds, dst \in AccountIds, amount \in SchedAmounts :
       ReturnsAt(ts, Transfer(ledger, ts, src, dst, amount))

CallTopSpenders ==
  /\ CanCallSched
  /\ \E ts \in Timestamps, n \in Counts :
       ReturnsAt(ts, TopSpenders(ledger, ts, n))

CallSchedulePayment ==
  /\ CanCallSched
  /\ \E ts \in Timestamps, id \in AccountIds, amount \in SchedAmounts, delay \in Delays :
       ReturnsAt(ts, SchedulePayment(ledger, ts, id, amount, delay))

CallCancelPayment ==
  /\ CanCallSched
  /\ \E ts \in Timestamps, id \in AccountIds, pid \in SchedPaymentIds :
       ReturnsAt(ts, CancelPayment(ledger, ts, id, pid))

CallMergeAccounts ==
  /\ CanCallSched
  /\ \E ts \in Timestamps, id1 \in AccountIds, id2 \in AccountIds :
       ReturnsAt(ts, MergeAccounts(ledger, ts, id1, id2))

CallGetBalance ==
  /\ CanCallSched
  /\ \E ts \in Timestamps, id \in AccountIds, time_at \in TimeAts :
       ReturnsAt(ts, GetBalance(ledger, ts, id, time_at))

NextSched ==
  \/ CallCreateAccount
  \/ CallDeposit
  \/ CallTransfer
  \/ CallTopSpenders
  \/ CallSchedulePayment
  \/ CallCancelPayment
  \/ CallMergeAccounts
  \/ CallGetBalance

SpecSched == InitSched /\ [][NextSched]_vars

(* ---------------------- claims about the scheduler --------------------- *)
\* The payments that are neither processed nor canceled.
Pending(s) ==
  {p \in DOMAIN s.paymentById :
     ~s.paymentById[p].processed /\ ~s.paymentById[p].canceled}

\* The payment ids held by the buckets of dueTimeToPaymentIds_.
Queued(s) ==
  UNION {{s.dueTimeToPaymentIds[k][i] : i \in 1..Len(s.dueTimeToPaymentIds[k])} :
         k \in DOMAIN s.dueTimeToPaymentIds}

DueTs(s, p) == s.paymentById[p].dueTimestamp

\* After the call that returned `out`, no pending payment among `candidates`
\* has due_ts <= limit.
NoBacklog(out, limit, candidates) ==
  \A p \in Pending(out.state) \cap candidates : DueTs(out.state, p) > limit

\* NoBacklog after each mutating call at ts; Counted(out) is the set of
\* payments of the call's outcome that the claim is about.
NoBacklogAt(ts, limit, Counted(_)) ==
  \A id \in AccountIds :
    /\ LET out == CreateAccount(ledger, ts, id) IN NoBacklog(out, limit, Counted(out))
    /\ \A amount \in SchedAmounts :
         /\ LET out == Deposit(ledger, ts, id, amount)
            IN  NoBacklog(out, limit, Counted(out))
         /\ \A dst \in AccountIds :
              LET out == Transfer(ledger, ts, id, dst, amount)
              IN  NoBacklog(out, limit, Counted(out))
         /\ \A delay \in Delays :
              LET out == SchedulePayment(ledger, ts, id, amount, delay)
              IN  NoBacklog(out, limit, Counted(out))
    /\ \A pid \in SchedPaymentIds :
         LET out == CancelPayment(ledger, ts, id, pid)
         IN  NoBacklog(out, limit, Counted(out))
    /\ \A id2 \in AccountIds :
         LET out == MergeAccounts(ledger, ts, id, id2)
         IN  NoBacklog(out, limit, Counted(out))

AllPayments(out) == DOMAIN out.state.paymentById

\* The payments that existed before the call (the call did not schedule them).
EarlierPayments(out) == DOMAIN ledger.paymentById

\* C11 as claimed: after any mutating operation with timestamp ts has
\* returned, no payment that is still pending has due_ts <= ts.
C11_NoBacklog ==
  \A ts \in Timestamps : NoBacklogAt(ts, ts, AllPayments)

\* C11 as amended: after any mutating operation with timestamp ts has
\* returned, no pending payment other than the one this very call scheduled
\* has due_ts <= ts.
C11_NoBacklogButOwn ==
  \A ts \in Timestamps : NoBacklogAt(ts, ts, EarlierPayments)

\* A call drains a payment that was pending and due at its timestamp.
C11_Witness ==
  \E ts \in Timestamps, p \in Pending(ledger) :
    /\ DueTs(ledger, p) <= ts
    /\ Deposit(ledger, ts, "a", 1).ok
    /\ Deposit(ledger, ts, "a", 1).state.paymentById[p].processed

Max(x, y) == IF x > y THEN x ELSE y

\* C12: between operations no pending payment has due_ts <= the largest
\* timestamp observed so far, because each call drains against
\* last_seen_ts = max of all timestamps seen and not against its own raw
\* timestamp. (The payment a call has itself just scheduled is not counted:
\* scheduling never executes it.)
C12_DrainsAgainstLastSeen ==
  \A ts \in Timestamps : NoBacklogAt(ts, Max(last_seen_ts, ts), EarlierPayments)

\* C13: SchedulePayment never debits in the call that schedules, whatever the
\* delay: the call leaves balances, outgoing totals and events as its drain
\* left them and the new payment pending in the queue. A pending payment is
\* attempted by the drain of a later call at ts2 when due_ts <= ts2, and is
\* left pending in the queue when due_ts > ts2.
C13_NotExecutedAtScheduleTime ==
  /\ \A ts \in Timestamps, id \in AccountIds, amount \in SchedAmounts, delay \in Delays :
       LET d == Drained(ts)
           out == SchedulePayment(ledger, ts, id, amount, delay)
           n == out.state
       IN  out.ok =>
             /\ n.accountBalances = d.accountBalances
             /\ n.accountOutgoing = d.accountOutgoing
             /\ n.balanceEvents = d.balanceEvents
             /\ out.val[1] \in Pending(n) \cap Queued(n)
             /\ DueTs(n, out.val[1]) = ts + delay
  /\ \A p \in Pending(ledger), ts2 \in Timestamps :
       IF DueTs(ledger, p) <= ts2
       THEN Drained(ts2).paymentById[p].processed /\ p \notin Queued(Drained(ts2))
       ELSE p \in Pending(Drained(ts2)) \cap Queued(Drained(ts2))

\* A payment of a positive amount is scheduled here with delay 0 on an
\* account that could pay it at once.
C13_Witness ==
  \E ts \in Timestamps, id \in AccountIds :
    /\ SchedulePayment(ledger, ts, id, 1, 0).ok
    /\ Drained(ts).accountBalances[id] >= 1

\* C14: SchedulePayment fails (nil, nothing enqueued, no ordinal consumed)
\* whenever id is not active, amount <= 0 or delay < 0.
C14_ScheduleRejectsBadArguments ==
  \A ts \in Timestamps, id \in AccountIds, amount \in SchedAmounts, delay \in Delays :
    (id \notin Active(Drained(ts)) \/ amount <= 0 \/ delay < 0) =>
       /\ ~SchedulePayment(ledger, ts, id, amount, delay).ok
       /\ SchedulePayment(ledger, ts, id, amount, delay).val = None
       /\ SchedulePayment(ledger, ts, id, amount, delay).state = Drained(ts)

\* The payment ids in the order in which processDuePayments(timestamp)
\* attempts them: bucket after bucket from begin(), each vector front to back.
RECURSIVE DrainOrder(_, _)
DrainOrder(s, timestamp) ==
  IF ~hasDue(s, timestamp) THEN <<>>
  ELSE LET due == MinKey(s.dueTimeToPaymentIds) IN
    s.dueTimeToPaymentIds[due]
      \o DrainOrder([s EXCEPT !.dueTimeToPaymentIds = Erase(@, due)], timestamp)

\* The ledger without the buckets that processDuePayments(timestamp) erases.
RECURSIVE Unqueued(_, _)
Unqueued(s, timestamp) ==
  IF ~hasDue(s, timestamp) THEN s
  ELSE Unqueued([s EXCEPT !.dueTimeToPaymentIds =
                    Erase(@, MinKey(s.dueTimeToPaymentIds))], timestamp)

\* The ledger as the drain at `timestamp` has it before its k-th attempt.
BeforeAttempt(s, timestamp, k) ==
  processBucket(Unqueued(s, timestamp), SubSeq(DrainOrder(s, timestamp), 1, k - 1))

\* (due_ts, creation_ordinal) of p precedes that of q.
AttemptedBefore(s, p, q) ==
  \/ s.paymentById[p].dueTimestamp < s.paymentById[q].dueTimestamp
  \/ /\ s.paymentById[p].dueTimestamp = s.paymentById[q].dueTimestamp
     /\ s.paymentById[p].creationOrder < s.paymentById[q].creationOrder

\* C15: within one drain the payments are attempted in ascending
\* (due_ts, creation_ordinal) order, each against the ledger that the attempts
\* of all earlier payments left.
C15_DrainOrder ==
  \A ts \in Timestamps :
    LET order == DrainOrder(ledger, ts) IN
      /\ \A i \in 1..Len(order), j \in 1..Len(order) :
           i < j => AttemptedBefore(ledger, order[i], order[j])
      /\ Drained(ts) = processBucket(Unqueued(ledger, ts), order)

\* Two payments of one bucket are drained here, and the debit of the first
\* leaves too little for the second.
C15_Witness ==
  \E ts \in Timestamps :
    LET order == DrainOrder(ledger, ts) IN
      /\ Len(order) >= 2
      /\ DueTs(ledger, order[1]) = DueTs(ledger, order[2])
      /\ payable(ledger, order[2])
      /\ ~payable(attemptPayment(ledger, order[1]), order[2])

\* C16: when the drain attempts a payment that is not canceled and whose
\* owner holds balance >= amount, the owner's balance decreases by amount,
\* its outgoing total increases by amount and the appended event carries the
\* payment's due_ts.
C16_DrainDebit ==
  \A ts \in Timestamps :
    \A k \in 1..Len(DrainOrder(ledger, ts)) :
      LET pre == BeforeAttempt(ledger, ts, k)
          post == BeforeAttempt(ledger, ts, k + 1)
          info == pre.paymentById[DrainOrder(ledger, ts)[k]]
          owner == info.accountId
      IN  (/\ ~info.canceled
           /\ owner \in Active(pre)
           /\ pre.accountBalances[owner] >= info.amount) =>
            /\ post.accountBalances[owner] = pre.accountBalances[owner] - info.amount
            /\ At(post.accountOutgoing, owner) = At(pre.accountOutgoing, owner) + info.amount
            /\ post.balanceEvents[owner] =
                 Append(VecAt(pre.balanceEvents, owner), <<info.dueTimestamp, -info.amount>>)

\* A call at timestamp 2 drains a payment that was due at 1 and can be paid.
C16_Witness ==
  \E p \in Pending(ledger) :
    /\ DueTs(ledger, p) = 1
    /\ ledger.paymentById[p].amount > 0
    /\ DrainOrder(ledger, 2)[1] = p
    /\ payable(ledger, p)

\* C17: a payment that comes due while its owner holds less than its amount
\* is consumed without a debit (marked processed, nothing else changes), and a
\* processed payment is in no bucket, so that no later drain attempts it.
C17_NoRetry ==
  /\ \A ts \in Timestamps :
       \A k \in 1..Len(DrainOrder(ledger, ts)) :
         LET pre == BeforeAttempt(ledger, ts, k)
             post == BeforeAttempt(ledger, ts, k + 1)
             p == DrainOrder(ledger, ts)[k]
             info == pre.paymentById[p]
         IN  (/\ ~info.canceled
              /\ info.accountId \in Active(pre)
              /\ pre.accountBalances[info.accountId] < info.amount) =>
               post = [pre EXCEPT !.paymentById[p].processed = TRUE]
  /\ \A p \in DOMAIN ledger.paymentById :
       ledger.paymentById[p].processed => p \notin Queued(ledger)

\* A payment was consumed without a debit, and its owner has since received
\* enough to pay it.
C17_Witness ==
  \E p \in DOMAIN ledger.paymentById :
    /\ ledger.paymentById[p].processed
    /\ ledger.paymentById[p].amount > 0
    /\ ledger.paymentById[p].accountId \in Active(ledger)
    /\ ledger.accountBalances[ledger.paymentById[p].accountId]
         >= ledger.paymentById[p].amount
    /\ At(ledger.accountOutgoing, ledger.paymentById[p].accountId) = 0

Unqueue(s, p) ==
  LET kept(k) == SelectSeq(s.dueTimeToPaymentIds[k], LAMBDA x : x # p)
  IN  [s EXCEPT !.dueTimeToPaymentIds =
         [k \in {j \in DOMAIN @ : kept(j) # <<>>} |-> kept(k)]]

\* C19: once a payment is canceled, no later drain debits it from any account
\* or adds it to any outgoing total: every drain leaves the ledger as it
\* would with the payment taken out of the queue.
C19_CanceledNeverDebited ==
  \A p \in DOMAIN ledger.paymentById :
    ledger.paymentById[p].canceled =>
      \A ts \in Timestamps :
        Unqueue(Drained(ts), p) = processDuePayments(Unqueue(ledger, p), ts)

\* A canceled payment is still queued, becomes due, and its owner could pay.
C19_Witness ==
  \E p \in Queued(ledger) :
    /\ ledger.paymentById[p].canceled
    /\ DueTs(ledger, p) <= 2
    /\ ledger.paymentById[p].amount > 0
    /\ ledger.accountBalances[ledger.paymentById[p].accountId]
         >= ledger.paymentById[p].amount

\* C20: CancelPayment returns true exactly when, after the drain, the payment
\* exists, is neither processed nor canceled and its current owner is id; then
\* it marks the payment canceled; in every other case it returns false and
\* marks nothing.
C20_CancelPayment ==
  \A ts \in Timestamps, id \in AccountIds, pid \in SchedPaymentIds :
    LET d == Drained(ts)
        out == CancelPayment(ledger, ts, id, pid)
    IN  /\ out.ok <=> /\ pid \in DOMAIN d.paymentById
                      /\ ~d.paymentById[pid].processed
                      /\ ~d.paymentById[pid].canceled
                      /\ d.paymentById[pid].accountId = id
        /\ out.ok => out.state = [d EXCEPT !.paymentById[pid].canceled = TRUE]
        /\ ~out.ok => out.state = d

\* After b was merged into a, a payment is canceled by its owner a and not
\* by b.
C20_Witness ==
  \E ts \in Timestamps, pid \in SchedPaymentIds :
    /\ "b" \in DOMAIN ledger.mergedInto
    /\ CancelPayment(ledger, ts, "a", pid).ok
    /\ ~CancelPayment(ledger, ts, "b", pid).ok

\* C21: a CancelPayment whose timestamp is >= the payment's due_ts never
\* cancels it: the call's own drain attempts a pending payment first (it is
\* processed when the call returns), and the call returns false.
C21_DrainWinsOverCancel ==
  \A ts \in Timestamps, id \in AccountIds, pid \in DOMAIN ledger.paymentById :
    DueTs(ledger, pid) <= ts =>
      LET out == CancelPayment(ledger, ts, id, pid) IN
        /\ ~out.ok
        /\ out.state = Drained(ts)
        /\ out.state.paymentById[pid].canceled = ledger.paymentById[pid].canceled
        /\ pid \in Pending(ledger) => out.state.paymentById[pid].processed

\* A pending payment that its owner could pay is canceled by its owner at
\* exactly its due time.
C21_Witness ==
  \E pid \in Pending(ledger) :
    /\ DueTs(ledger, pid) \in Timestamps
    /\ payable(ledger, pid)
    /\ ledger.paymentById[pid].amount > 0
    /\ ~CancelPayment(ledger, DueTs(ledger, pid),
                      ledger.paymentById[pid].accountId, pid).ok

\* C22: payment ids are "payment<ordinal>", the first successful
\* SchedulePayment returns "payment1", and ordinals strictly increase over all
\* successful SchedulePayment calls whatever the account: a new payment's
\* ordinal exceeds every earlier one and its id is not in use.
C22_PaymentIds ==
  /\ \A p \in DOMAIN ledger.paymentById :
       /\ p = PaymentId(ledger.paymentById[p].creationOrder)
       /\ ledger.paymentById[p].creationOrder < ledger.nextPaymentOrdinal
  /\ \A ts \in Timestamps, id \in AccountIds, amount \in SchedAmounts, delay \in Delays :
       LET out == SchedulePayment(ledger, ts, id, amount, delay) IN
         out.ok =>
           /\ out.val[1] \notin DOMAIN ledger.paymentById
           /\ out.val[1] = PaymentId(out.state.paymentById[out.val[1]].creationOrder)
           /\ \A p \in DOMAIN ledger.paymentById :
                /\ out.state.paymentById[p] = Drained(ts).paymentById[p]
                /\ ledger.paymentById[p].creationOrder
                     < out.state.paymentById[out.val[1]].creationOrder
           /\ ledger.paymentById = EmptyMap => out.val = Some("payment1")

\* Payments have been scheduled on both accounts.
C22_Witness ==
  \E p \in DOMAIN ledger.paymentById, q \in DOMAIN ledger.paymentById :
    /\ ledger.paymentById[p].accountId = "a"
    /\ ledger.paymentById[q].accountId = "b"
    /\ ledger.paymentById[p].creationOrder < ledger.paymentById[q].creationOrder

\* C23: MergeAccounts(ts, a, b) returns true exactly when a # b and both are
\* active; then balance(a) is the old balance(a) + balance(b), outgoing(a) the
\* old outgoing(a) + outgoing(b), b is not active and holds no balance or
\* outgoing total, and (a, ts, +old_balance_b), (b, ts, -old_balance_b) are
\* appended.
C23_MergeAccounts ==
  \A ts \in Timestamps, a \in AccountIds, b \in AccountIds :
    LET d == Drained(ts)
        out == MergeAccounts(ledger, ts, a, b)
        n == out.state
    IN  /\ out.ok <=> (a # b /\ a \in Active(d) /\ b \in Active(d))
        /\ out.ok =>
             /\ n.accountBalances[a] = d.accountBalances[a] + d.accountBalances[b]
             /\ At(n.accountOutgoing, a) = At(d.accountOutgoing, a) + At(d.accountOutgoing, b)
             /\ b \notin Active(n)
             /\ b \notin DOMAIN n.accountOutgoing
             /\ n.balanceEvents[a] =
                  Append(VecAt(d.balanceEvents, a), <<ts, d.accountBalances[b]>>)
             /\ n.balanceEvents[b] =
                  Append(VecAt(d.balanceEvents, b), <<ts, -d.accountBalances[b]>>)

\* An account with funds and spending is merged into the other here.
C23_Witness ==
  \E ts \in Timestamps, a \in AccountIds, b \in AccountIds :
    /\ MergeAccounts(ledger, ts, a, b).ok
    /\ Drained(ts).accountBalances[b] > 0
    /\ At(Drained(ts).accountOutgoing, b) > 0

\* C24: every pending payment is owned by an active account. A successful
\* MergeAccounts(ts, a, b) re-homes every pending payment of b to a and
\* leaves the other payments alone, and a later re-creation of b gives none
\* of them back to b.
C24_PendingOwnedByActive ==
  /\ \A p \in Pending(ledger) : ledger.paymentById[p].accountId \in Active(ledger)
  /\ \A ts \in Timestamps, a \in AccountIds, b \in AccountIds :
       LET d == Drained(ts)
           out == MergeAccounts(ledger, ts, a, b)
       IN  out.ok =>
             /\ \A p \in DOMAIN d.paymentById :
                  out.state.paymentById[p] =
                    IF p \in Pending(d) /\ d.paymentById[p].accountId = b
                    THEN [d.paymentById[p] EXCEPT !.accountId = a]
                    ELSE d.paymentById[p]
             /\ \A ts2 \in Timestamps :
                  LET again == CreateAccount(out.state, ts2, b) IN
                    /\ again.ok
                    /\ \A p \in Pending(again.state) :
                         again.state.paymentById[p].accountId # b

\* The account that is merged away here owns a pending payment.
C24_Witness ==
  \E ts \in Timestamps :
    \E p \in Pending(Drained(ts)) :
      /\ Drained(ts).paymentById[p].accountId = "b"
      /\ MergeAccounts(ledger, ts, "a", "b").ok

(* ------------------- claims about the temporal index ------------------- *)
\* Timestamps of the calls that the claims below make after the ledger has
\* been reached.
LaterTimestamps == {1, 2, 3}

\* Some balance event of id carries a timestamp later than ts.
StampedAfter(s, id, ts) ==
  \E i \in 1..Len(VecAt(s.balanceEvents, id)) : s.balanceEvents[id][i][1] > ts

\* GetBalance(*, b, t) after the merge of b at merge_ts, for every `now` and t:
\* nil for t > merge_ts, and 0 for t = merge_ts when ZeroAt holds.
ClosedAfterMerge(s, b, merge_ts, ZeroAt) ==
  \A now \in Timestamps, t \in TimeAts :
    LET g == GetBalance(s, now, b, t) IN
      /\ t > merge_ts => (~g.ok /\ g.val = None)
      /\ (t = merge_ts /\ ZeroAt) => g.val = Some(0)

\* GetBalance(*, b, t) for t < ts answers after MergeAccounts(ts, a, b) what it
\* answered before it, wherever b existed at t.
HistoryKeptByMerge ==
  \A ts \in Timestamps, a \in AccountIds, b \in AccountIds :
    LET d == Drained(ts)
        out == MergeAccounts(ledger, ts, a, b)
    IN  out.ok =>
          \A now \in Timestamps, t \in TimeAts :
            (t < ts /\ GetBalanceBody(d, ts, b, t).ok) =>
               GetBalance(out.state, now, b, t).val = GetBalanceBody(d, ts, b, t).val

C26_NilOutsideLifetimes ==
  /\ \A id \in AccountIds \cup {"c"}, now \in Timestamps, t \in TimeAts :
       (\/ id \notin DOMAIN ledger.creationTimes
        \/ t < ledger.creationTimes[id][1]) =>
          ~GetBalance(ledger, now, id, t).ok
  /\ \A b \in DOMAIN ledger.mergedInto, ts_c \in LaterTimestamps, t \in TimeAts :
       LET again == CreateAccount(ledger, ts_c, b) IN
         (again.ok /\ ledger.mergedInto[b][2] < t /\ t < ts_c) =>
            ~GetBalance(again.state, ts_c, b, t).ok

\* C27: for t_at <= now at which a exists, GetBalance(now, a, t_at) is the
\* balance of a after replaying only the calls with timestamp <= t_at, and
\* calls with later timestamps (and the drains they trigger) do not change
\* it. Stated for t_at = the largest timestamp passed so far: the calls made
\* so far are the prefix, the ledger reached is its replay, and the later
\* calls are a GetBalance, or a Deposit and a GetBalance, at a later timestamp.
C27_HistoricalConsistency ==
  \A a \in Active(ledger), now \in LaterTimestamps :
    now > last_seen_ts =>
      /\ GetBalance(ledger, now, a, last_seen_ts).val = Some(ledger.accountBalances[a])
      /\ \A id \in AccountIds, amount \in SchedAmounts :
           GetBalance(Deposit(ledger, now, id, amount).state, now, a, last_seen_ts).val
             = Some(ledger.accountBalances[a])

C29_TopSpenders ==
  \A ts \in Timestamps, n \in Counts :
    LET d == Drained(ts)
        out == TopSpenders(ledger, ts, n)
        r == out.val
        want == IF n < 0 THEN 0 ELSE n
        Ahead(x, y) ==
          \/ At(d.accountOutgoing, x) > At(d.accountOutgoing, y)
          \/ /\ At(d.accountOutgoing, x) = At(d.accountOutgoing, y)
             /\ IdLess(x, y)
    IN  /\ out.state = d
        /\ Len(r) = IF want < Cardinality(Active(d)) THEN want ELSE Cardinality(Active(d))
        /\ \E ord \in [1..Len(r) -> Active(d)] :
             /\ \A i \in 1..Len(r) :
                  r[i] = ord[i] \o "(" \o ToString(At(d.accountOutgoing, ord[i])) \o ")"
             /\ \A i \in 1..Len(r), j \in 1..Len(r) : i < j => Ahead(ord[i], ord[j])
             /\ \A i \in 1..Len(r) :
                  \A x \in Active(d) \ {ord[k] : k \in 1..Len(r)} : Ahead(ord[i], x)

\* With two active accounts of which a has spent, the top one is asked for.
C29_Witness ==
  /\ Active(ledger) = {"a", "b"}
  /\ TopSpenders(ledger, 1, 1).val = <<"a(1)">>
  /\ TopSpenders(ledger, 1, 2).val = <<"a(1)", "b(0)">>

\* C30: from its creation until a merge closes it, the outgoing total of an
\* account never decreases, whatever the operations and arguments.
C30_OutgoingMonotone ==
  [][\A id \in Active(ledger) \cap Active(ledger') :
       At(ledger'.accountOutgoing, id) >= At(ledger.accountOutgoing, id)]_vars

(* ---------------- claims about the drain and the funds ----------------- *)
\* C31: the drain is idempotent for a fixed timestamp: a second
\* processDuePayments(ts) right after the first attempts no payment and
\* leaves exactly the ledger the first one left.
C31_DrainIdempotent ==
  \A ts \in Timestamps :
    /\ DrainOrder(Drained(ts), ts) = <<>>
    /\ processDuePayments(Drained(ts), ts) = Drained(ts)

\* Two buckets are due at once and the drain debits a payment.
C31_Witness ==
  \E ts \in Timestamps :
    /\ Cardinality({due \in DOMAIN ledger.dueTimeToPaymentIds : due <= ts}) >= 2
    /\ Drained(ts).accountBalances # ledger.accountBalances

\* The sum of the balances of the active accounts.
RECURSIVE SumBalances(_, _)
SumBalances(s, ids) ==
  IF ids = {} THEN 0
  ELSE LET id == CHOOSE x \in ids : TRUE IN
         s.accountBalances[id] + SumBalances(s, ids \ {id})

TotalBalance(s) == SumBalances(s, DOMAIN s.accountBalances)

\* The sum of the amounts of the payments that processDuePayments(timestamp)
\* debits on s: those its k-th attempt finds payable with sufficient funds.
RECURSIVE DebitedFrom(_, _, _)
DebitedFrom(s, timestamp, k) ==
  IF k > Len(DrainOrder(s, timestamp)) THEN 0
  ELSE LET b == BeforeAttempt(s, timestamp, k)
           p == DrainOrder(s, timestamp)[k]
       IN  (IF /\ payable(b, p)
               /\ b.accountBalances[b.paymentById[p].accountId] >= b.paymentById[p].amount
            THEN b.paymentById[p].amount ELSE 0)
           + DebitedFrom(s, timestamp, k + 1)

\* C40: money is conserved. Every operation changes the sum of the balances
\* of the active accounts by exactly the amount of its deposit, if it is a
\* successful Deposit, less the amounts of the scheduled payments its drain
\* debited; Transfer, MergeAccounts and every other operation add nothing. So
\* after any sequence of operations the sum is the successful deposits less
\* the debited payments.
C40_MoneyConserved ==
  \A ts \in Timestamps, id \in AccountIds :
    LET after == TotalBalance(ledger) - DebitedFrom(ledger, ts, 1) IN
      /\ TotalBalance(Drained(ts)) = after
      /\ \A amount \in SchedAmounts :
           LET out == Deposit(ledger, ts, id, amount) IN
             TotalBalance(out.state) = after + (IF out.ok THEN amount ELSE 0)
      /\ \A id2 \in AccountIds :
           /\ \A amount \in SchedAmounts :
                TotalBalance(Transfer(ledger, ts, id, id2, amount).state) = after
           /\ TotalBalance(MergeAccounts(ledger, ts, id, id2).state) = after
      /\ TotalBalance(CreateAccount(ledger, ts, id).state) = after
      /\ \A amount \in SchedAmounts, delay \in Delays :
           TotalBalance(SchedulePayment(ledger, ts, id, amount, delay).state) = after
      /\ \A pid \in SchedPaymentIds :
           TotalBalance(CancelPayment(ledger, ts, id, pid).state) = after
      /\ \A n \in Counts : TotalBalance(TopSpenders(ledger, ts, n).state) = after
      /\ \A t \in TimeAts : TotalBalance(GetBalance(ledger, ts, id, t).state) = after

\* Funds are about to be moved by a transfer and by a merge, after a drain
\* that debits a payment.
C40_Witness ==
  \E ts \in Timestamps :
    /\ DebitedFrom(ledger, ts, 1) > 0
    /\ \E id \in AccountIds, id2 \in AccountIds :
         /\ Drained(ts).accountBalances # Transfer(ledger, ts, id, id2, 1).state.accountBalances
         /\ MergeAccounts(ledger, ts, id2, id).ok
         /\ Drained(ts).accountBalances[id] > 0

(* ------------- the thread-safe decorator: locks and its table ---------- *)
\* The account guards that thread t owns, exclusively or shared.
GuardsOwnedBy(t) ==
  {id \in DOMAIN account_mutexes :
     account_mutexes[id].w = t \/ t \in account_mutexes[id].r}

\* t is inside lock() or lock_shared() of global_mutex_.
AtGlobalLock(t) == thr[t].pc \in {"global", "gam1", "gam2"}

\* C33: locks are acquired global guard first, then per-account guards: no
\* thread requests the global guard while it owns a per-account guard.
C33_GlobalGuardFirst ==
  \A t \in Threads : AtGlobalLock(t) => GuardsOwnedBy(t) = {}

\* C39: the per-account mutex table is never read by one thread while
\* another thread inserts into it (and so every getAccountMutex call for an
\* id returns, and returns the id's one mutex).
C39_MutexTableGuarded ==
  /\ \A t \in Threads : thr[t].pc \in {"find1", "find2"} => ~InsertInProgress(t)
  /\ \A t \in Threads : thr[t].pc # "fault"

(* ------------- concurrent deposits on distinct accounts: SpecS6 -------- *)
\* The account each thread deposits to: distinct accounts for distinct threads.
AccountOf(t) == IF t = 1 THEN "a" ELSE "b"

\* The ledger after CreateAccount(1, "a") and CreateAccount(1, "b").
TwoAccounts ==
  CreateAccount(CreateAccount(EmptyLedger, 1, "a").state, 1, "b").state

\* The accounts exist; earlier calls may or may not have put their guards
\* into account_mutexes_ (CreateAccount does not).
InitS6 ==
  /\ ledger = TwoAccounts
  /\ \E ids \in SUBSET AccountIds : account_mutexes = [id \in ids |-> FreeMutex]
  /\ global_mutex = FreeMutex
  /\ thr = [t \in Threads |-> Idle]
  /\ ncalls = 0
  /\ last_seen_ts = 0
  /\ NoProcessor

\* t has made its call and the call has been applied.
Deposited(t) == Len(ledger.balanceEvents[AccountOf(t)]) > 1

\* Thread t calls Deposit(ts, AccountOf(t), 1), once.
BeginDeposit(t) ==
  /\ thr[t].pc = "idle"
  /\ ~Deposited(t)
  /\ ncalls' = ncalls + 1
  /\ \E ts \in Timestamps :
       Set(t, [Idle EXCEPT !.pc = "find1", !.op = "Deposit", !.ts = ts,
                           !.id = AccountOf(t), !.id2 = AccountOf(t),
                           !.amount = 1, !.aux = 1])
  /\ UNCHANGED <<ledger, account_mutexes, global_mutex, last_seen_ts, queue, qthr, tp>>

NextS6 ==
  \E t \in Threads :
    \/ BeginDeposit(t)
    \/ FindMutex(t)
    \/ GamLock(t)
    \/ GamInsert(t)
    \/ LockAccount(t)
    \/ BodyAndReturn(t)

SpecS6 == InitS6 /\ [][NextS6]_vars

\* C32: when the threads concurrently call Deposit(ts_i, a_i, 1) on distinct
\* accounts, every call succeeds (none ends in a fault), and once all have
\* returned the sum of the balances is the number of threads and each
\* account's history is its creation followed by its deposit.
C32_ConcurrentDeposits ==
  /\ \A t \in Threads : thr[t].pc # "fault"
  /\ (\A t \in Threads : Deposited(t) /\ thr[t].pc = "idle") =>
       /\ TotalBalance(ledger) = Cardinality(Threads)
       /\ \A t \in Threads :
            /\ Len(ledger.balanceEvents[AccountOf(t)]) = 2
            /\ ledger.balanceEvents[AccountOf(t)][1] = <<1, 0>>
            /\ ledger.balanceEvents[AccountOf(t)][2][2] = 1

(* --------------------- LockFreeQueue: enqueue, dequeue ----------------- *)
\* The addresses operator new may return: a fresh one, or that of a node
\* deleted before.
Addresses(q) ==
  {Len(q.nodes) + 1} \cup {a \in 1..Len(q.nodes) : ~q.nodes[a].live}

Construct(nodes, a, node) ==
  IF a = Len(nodes) + 1 THEN Append(nodes, node) ELSE [nodes EXCEPT ![a] = node]

SetQ(t, rec) == qthr' = [qthr EXCEPT ![t] = rec]

\* An access to freed memory ends the process: every thread stops where it is.
Fault(t) ==
  qthr' = [u \in QThreads |->
             [qthr[u] EXCEPT !.pc = IF u = t THEN "fault" ELSE "killed"]]

\* enqueue, line 27: Node* new_node = new Node(std::move(item)).
NewNode(t, item) ==
  \E a \in Addresses(queue) :
    /\ queue' = [queue EXCEPT !.nodes = Construct(@, a, Node(item))]
    /\ SetQ(t, [qthr[t] EXCEPT !.pc = "exchange", !.item = item, !.new_node = a])

\* The test's producers: queue.enqueue(p * items_per_producer + i).
ItemOf(p, i) == p * MaxItems + i

ProducerOf(item) == (item - 1) \div MaxItems

\* A producer calls enqueue with its next item.
Produce(t) ==
  /\ qthr[t].role = "producer"
  /\ qthr[t].pc = "idle"
  /\ qthr[t].sent < MaxItems
  /\ NewNode(t, ItemOf(t, qthr[t].sent + 1))
  /\ UNCHANGED <<lvars, tp>>

\* enqueue, line 28: Node* old_tail = tail_.exchange(new_node).
Exchange(t) ==
  /\ qthr[t].pc = "exchange"
  /\ queue' = [queue EXCEPT !.tail = qthr[t].new_node,
                            !.linked = Append(@, qthr[t].item)]
  /\ SetQ(t, [qthr[t] EXCEPT !.pc = "link", !.old_tail = queue.tail])
  /\ UNCHANGED <<lvars, tp>>

\* Where the caller of enqueue goes on: the stop() loop after a shutdown
\* sentinel, its idle position after anything else.
AfterEnqueue(c) ==
  IF c.role = "controller" /\ c.pending > 0
  THEN [c EXCEPT !.pc = "stop_loop", !.pending = @ - 1]
  ELSE [c EXCEPT !.pc = "idle", !.sent = @ + 1]

\* enqueue, lines 31-32: old_tail->next.store(new_node); size_.fetch_add(1);
\* the call returns. A store into a deleted node is undefined: it lands in
\* the freed memory, or ends the process.
Link(t) ==
  /\ qthr[t].pc = "link"
  /\ \/ /\ queue' = [queue EXCEPT
                       !.nodes[qthr[t].old_tail].next = qthr[t].new_node,
                       !.size = @ + 1,
                       !.returned = @ \cup {qthr[t].item}]
        /\ SetQ(t, AfterEnqueue(qthr[t]))
     \/ /\ ~queue.nodes[qthr[t].old_tail].live
        /\ Fault(t)
        /\ UNCHANGED queue
  /\ UNCHANGED <<lvars, tp>>

\* dequeue returns `result` to its caller: a consumer of the queue, or a
\* worker of the TransactionProcessor.
Return(c, result) ==
  [c EXCEPT !.pc = IF c.role = "worker" THEN "w_got" ELSE "idle",
            !.result = result, !.head = nullptr, !.next = nullptr]

\* A consumer calls dequeue (a worker does from its loop); line 37:
\* Node* head = head_.load().
LoadHead(t) ==
  /\ \/ qthr[t].role = "consumer" /\ qthr[t].pc = "idle"
     \/ qthr[t].pc = "d_head"
  /\ SetQ(t, [qthr[t] EXCEPT !.pc = "d_next", !.head = queue.head])
  /\ UNCHANGED <<lvars, queue, tp>>

\* dequeue, lines 38-42: Node* next = head->next.load(); nullopt if it is
\* null. The read of a deleted node is undefined: it yields what the freed
\* memory holds, or ends the process.
LoadNext(t) ==
  /\ qthr[t].pc = "d_next"
  /\ \/ LET next == queue.nodes[qthr[t].head].next IN
          SetQ(t, IF next = nullptr THEN Return(qthr[t], None)
                  ELSE [qthr[t] EXCEPT !.pc = "d_cas", !.next = next])
     \/ /\ ~queue.nodes[qthr[t].head].live
        /\ Fault(t)
  /\ UNCHANGED <<lvars, queue, tp>>

\* dequeue, lines 45 and 52: head_.compare_exchange_strong(head, next);
\* nullopt if another thread got there first.
CasHead(t) ==
  /\ qthr[t].pc = "d_cas"
  /\ IF queue.head = qthr[t].head
     THEN /\ queue' = [queue EXCEPT !.head = qthr[t].next]
          /\ SetQ(t, [qthr[t] EXCEPT !.pc = "d_take"])
     ELSE /\ SetQ(t, Return(qthr[t], None))
          /\ UNCHANGED queue
  /\ UNCHANGED <<lvars, tp>>

\* dequeue, line 46: T result = std::move(next->data).
moved_FromHead(q, head, next) == q.nodes[head].data

moved(q, head, next) == q.nodes[next].data

\* dequeue, lines 46-49: the data is moved out of next, head is deleted,
\* size_.fetch_sub(1), the item is returned. Reading a deleted next and
\* deleting a deleted head are undefined: the call goes on with what the
\* freed memory holds, or the process ends.
Take(t) ==
  /\ qthr[t].pc = "d_take"
  /\ \/ LET result == moved(queue, qthr[t].head, qthr[t].next) IN
          /\ queue' = [queue EXCEPT !.nodes[qthr[t].head].live = FALSE,
                                    !.size = @ - 1,
                                    !.taken = Append(@, result)]
          /\ SetQ(t, Return(qthr[t], Some(result)))
     \/ /\ \/ ~queue.nodes[qthr[t].next].live
           \/ ~queue.nodes[qthr[t].head].live
        /\ Fault(t)
        /\ UNCHANGED queue
  /\ UNCHANGED <<lvars, tp>>

\* dequeue run on q with no other thread taking a step: what it returns.
DequeueAlone(q) ==
  LET next == q.nodes[q.head].next IN
    IF next = nullptr THEN None ELSE Some(moved(q, q.head, next))

\* The producers and the consumers of the test on one queue of int.
QueueInit(roles) ==
  /\ ledger = EmptyLedger
  /\ DecoratorInit
  /\ last_seen_ts = 0
  /\ queue = NewQueue(0)
  /\ qthr = [t \in QThreads |-> QThread(roles[t], "idle")]
  /\ tp = NewProcessor

NextQueue ==
  \E t \in QThreads :
    \/ Produce(t)
    \/ Exchange(t)
    \/ Link(t)
    \/ LoadHead(t)
    \/ LoadNext(t)
    \/ CasHead(t)
    \/ Take(t)

\* Two producers and the single consumer the queue is documented for.
InitMPSC == QueueInit(<<"producer", "producer", "consumer">>)

SpecMPSC == InitMPSC /\ [][NextQueue]_vars

\* A producer and two concurrent consumers.
InitMPMC == QueueInit(<<"producer", "consumer", "consumer">>)

SpecMPMC == InitMPMC /\ [][NextQueue]_vars

(* ------------------------- TransactionProcessor ------------------------ *)
\* stop(): submitTransaction("") signals shutdown.
Sentinel == ""

\* The transaction_json of the i-th submitted transaction (never empty).
TxOf(i) == "tx" \o ToString(i)

Workers == {t \in QThreads : qthr[t].role = "worker"}

\* The owner of the processor, its worker threads not started yet.
InitTP ==
  /\ ledger = EmptyLedger
  /\ DecoratorInit
  /\ last_seen_ts = 0
  /\ queue = NewQueue("")
  /\ qthr = [t \in QThreads |->
               IF t = 1 THEN QThread("controller", "idle") ELSE QThread("worker", "none")]
  /\ tp = NewProcessor

\* start(): running_ = true; num_workers_ threads are started on workerThread.
Start(t) ==
  /\ qthr[t].role = "controller"
  /\ qthr[t].pc = "idle"
  /\ ~tp.running
  /\ tp' = [tp EXCEPT !.running = TRUE]
  /\ qthr' = [u \in QThreads |->
                IF u \in Workers THEN QThread("worker", "w_loop") ELSE qthr[u]]
  /\ UNCHANGED <<lvars, queue>>

\* submitTransaction(transaction_json): transaction_queue_.enqueue(...).
SubmitTransaction(t) ==
  /\ qthr[t].role = "controller"
  /\ qthr[t].pc = "idle"
  /\ tp.submitted < MaxTx
  /\ NewNode(t, TxOf(tp.submitted + 1))
  /\ tp' = [tp EXCEPT !.submitted = @ + 1]
  /\ UNCHANGED lvars

\* stop(): running_ = false, then the loop that submits the sentinels.
StopBegin(t) ==
  /\ qthr[t].role = "controller"
  /\ qthr[t].pc = "idle"
  /\ tp.running
  /\ tp.stops < MaxStops
  /\ tp' = [tp EXCEPT !.running = FALSE, !.stops = @ + 1]
  /\ SetQ(t, [qthr[t] EXCEPT !.pc = "stop_loop", !.pending = NumWorkers])
  /\ UNCHANGED <<lvars, queue>>

\* stop(), lines 46-48: submitTransaction("") once per worker.
StopSubmit(t) ==
  /\ qthr[t].pc = "stop_loop"
  /\ qthr[t].pending > 0
  /\ NewNode(t, Sentinel)
  /\ UNCHANGED <<lvars, tp>>

\* stop(), lines 51-56: every worker thread is joined, worker_threads_ cleared.
Join(t) ==
  /\ qthr[t].pc = "stop_loop"
  /\ qthr[t].pending = 0
  /\ \A u \in Workers : qthr[u].pc = "exited"
  /\ qthr' = [u \in QThreads |->
                IF u \in Workers THEN QThread("worker", "none")
                ELSE IF u = t THEN [qthr[u] EXCEPT !.pc = "idle"]
                ELSE qthr[u]]
  /\ UNCHANGED <<lvars, queue, tp>>

\* workerThread, line 93: while (running_), then the call of dequeue.
WorkerLoop(t) ==
  /\ qthr[t].pc = "w_loop"
  /\ SetQ(t, [qthr[t] EXCEPT !.pc = IF tp.running THEN "d_head" ELSE "exited"])
  /\ UNCHANGED <<lvars, queue, tp>>

\* workerThread, lines 95-115: no value: sleep and continue; the empty
\* string: break; anything else: processTransaction, then the counter.
WorkerHandle(t) ==
  /\ qthr[t].pc = "w_got"
  /\ IF qthr[t].result = None
     THEN /\ SetQ(t, [qthr[t] EXCEPT !.pc = "w_loop"])
          /\ UNCHANGED tp
     ELSE IF qthr[t].result = Some(Sentinel)
     THEN /\ SetQ(t, [qthr[t] EXCEPT !.pc = "exited", !.result = None])
          /\ UNCHANGED tp
     ELSE /\ SetQ(t, [qthr[t] EXCEPT !.pc = "w_loop", !.result = None])
          /\ tp' = [tp EXCEPT !.transactions_processed = @ + 1]
  /\ UNCHANGED <<lvars, queue>>

NextTP ==
  \E t \in QThreads :
    \/ Start(t)
    \/ SubmitTransaction(t)
    \/ StopBegin(t)
    \/ StopSubmit(t)
    \/ Join(t)
    \/ Exchange(t)
    \/ Link(t)
    \/ WorkerLoop(t)
    \/ LoadHead(t)
    \/ LoadNext(t)
    \/ CasHead(t)
    \/ Take(t)
    \/ WorkerHandle(t)

SpecTP == InitTP /\ [][NextTP]_vars

(* ---------- claims about LockFreeQueue and TransactionProcessor -------- *)
Range(seq) == {seq[i] : i \in 1..Len(seq)}

\* The threads that are inside dequeue.
InDequeue == {t \in QThreads : qthr[t].pc \in {"d_next", "d_cas", "d_take"}}

\* Every producer has made all its enqueue calls and no call is in progress.
Quiescent ==
  \A t \in QThreads :
    /\ qthr[t].pc = "idle"
    /\ qthr[t].role = "producer" => qthr[t].sent = MaxItems

\* C34: with concurrent producers and concurrent consumers every enqueued
\* item is returned by exactly one dequeue call, no consumer reads a node
\* after it has been freed, and once the producers have finished and all
\* items have been consumed the queue is empty.
C34_ConcurrentConsumers ==
  /\ \A t \in QThreads :
       /\ qthr[t].pc = "d_next" => queue.nodes[qthr[t].head].live
       /\ qthr[t].pc = "d_take" => queue.nodes[qthr[t].next].live
       /\ qthr[t].pc # "fault"
  /\ \A i \in 1..Len(queue.taken) :
       /\ queue.taken[i] \in Range(queue.linked)
       /\ \A j \in 1..Len(queue.taken) : i # j => queue.taken[i] # queue.taken[j]
  /\ Quiescent =>
       /\ Len(queue.taken) = Len(queue.linked) => DequeueAlone(queue) = None
       /\ DequeueAlone(queue) = None => Range(queue.taken) = Range(queue.linked)

\* C35: with a single consumer the items are dequeued in the order in which
\* their enqueue calls took effect (the order of the tail_.exchange), so each
\* producer's items come out in the order it enqueued them (ascending, as the
\* producer numbers them), and dequeue on a queue that holds no item returns
\* the empty optional.
C35_Fifo ==
  /\ \A t \in QThreads : qthr[t].pc # "fault"
  /\ Len(queue.taken) <= Len(queue.linked)
  /\ queue.taken = SubSeq(queue.linked, 1, Len(queue.taken))
  /\ \A i \in 1..Len(queue.taken), j \in 1..Len(queue.taken) :
       (i < j /\ ProducerOf(queue.taken[i]) = ProducerOf(queue.taken[j])) =>
          queue.taken[i] < queue.taken[j]
  /\ queue.taken = queue.linked => DequeueAlone(queue) = None

\* Three items have been dequeued, of both producers, the second producer's
\* first.
C35_Witness ==
  /\ Len(queue.taken) >= 3
  /\ ProducerOf(queue.taken[1]) = 2
  /\ ProducerOf(queue.taken[2]) = 1

\* C36: dequeue returns the empty optional only when the queue is empty: if
\* an item whose enqueue call has returned has not been dequeued, a dequeue
\* call returns an item, also while enqueue calls are in progress.
C36_EmptyOnlyWhenEmpty ==
  \A t \in QThreads :
    (/\ qthr[t].role = "consumer"
     /\ qthr[t].pc = "idle"
     /\ queue.returned \ Range(queue.taken) # {}) =>
       DequeueAlone(queue) # None

\* C37: at no time do two threads execute dequeue on the same queue, in
\* particular on the TransactionProcessor's transaction queue.
C37_SingleConsumer == Cardinality(InDequeue) <= 1

\* C38: after stop() followed by start() all workers keep running: while
\* running_ is set no worker thread has left workerThread (so that there are
\* workers to process what is submitted).
C38_RestartKeepsWorkers ==
  tp.running => \A t \in Workers : qthr[t].pc # "exited"

====
